---- MODULE Spec2Model ----
(***************************************************************************)
(* Streaming chat protocol of tanstack-ai: the provider adapters (OpenAI,  *)
(* Gemini) that turn raw vendor chunks into canonical stream events, the   *)
(* tool-calling loop built on top of them, and the response bridge that    *)
(* serialises the events as server-sent records.                           *)
(*                                                                         *)
(* Text is a sequence of tokens (a JavaScript string cut into the pieces   *)
(* the model distinguishes); "" in the source is the empty sequence <<>>.  *)
(* Event fields that no operation reads back (the event id, the model      *)
(* name, the usage numbers) are left out of the event records.             *)
(***************************************************************************)
EXTENDS Integers, Sequences, FiniteSets, TLC

VARIABLES
    adapter,             \* which adapter's chatStream runs: "openai" | "gemini" | "none"
    apc,                 \* position of chatStream: "open" | "iter" | "ended" | "thrown" | "idle"
    out,                 \* the canonical events yielded so far, in order
    accumulatedContent,  \* chatStream's local accumulatedContent
    timestamp,           \* chatStream's local timestamp (Date.now() at stream start)
    toolCallMap,         \* Gemini: Map<id, {name,args,index}> in insertion order
    nextToolIndex,       \* Gemini: nextToolIndex
    now,                 \* the clock read by Date.now()
    nchunks,             \* raw vendor chunks consumed so far
    failure,             \* history: the vendor call or the vendor stream has failed
    \* ---- the tool-calling loop ----
    pc,                  \* "Start" | "Streaming" | "ExecutingTools" | "Complete" | "Failed" | "Cancelled" | "idle"
    maxIterations,       \* the loop's iteration bound
    iteration,           \* the loop's iteration counter
    messages,            \* the conversation
    content,             \* the turn's accumulated content
    toolCallsMap,        \* the turn's Map<index, {id,name,args}> in insertion order
    toolCalls,           \* the turn's tool calls collected at the done event
    callPos,             \* position of `for (const call of toolCalls)`
    nevents,             \* stream events consumed so far by the loop
    sst,                 \* what the turn's stream has delivered: "live" | "errored" | "terminal"
    lastFinish,          \* history: finish reason of the turn's done event ("" if none)
    adapterCalls,        \* history: number of adapter invocations
    toolTurns,           \* history: turns in which the model requested tool calls
    toolRounds,          \* history: completed tool-execution rounds
    executed,            \* history: the tool calls executed in the current round, in order
    \* ---- the response bridge ----
    server,              \* "ts" (toStreamResponse in the chat route) | "php" (POST /chat)
    bpc,                 \* "request" | "running" | "closed" | "rejected" | "refused" | "error500" | "idle"
    srcState,            \* the source iterable: "open" | "ended" | "thrown" | "returned"
    pulled,              \* the events the bridge has taken from the source, in order
    records,             \* the records enqueued on the response stream, in order
    stream,              \* the ReadableStream: "readable" | "closed" | "cancelled"
    requestAborted,      \* request.signal.aborted
    atGone,              \* history: <<Len(pulled), Len(records)>> when the consumer went away
    \* ---- the orchestrator's cancellation ----
    cancelled,           \* AgentLoopState.cancelled
    inflight,            \* a tool executor is running for toolCalls[callPos]
    started,             \* history: number of tool executors started
    dispatched,          \* history: tool calls of the current turn taken up so far
    roundMsgs,           \* history: tool messages appended for the current turn
    cancelMark,          \* history: <<adapterCalls, started, dispatched>> when cancellation was signalled
    \* ---- the tool-call accumulation of one call, taken alone ----
    fragments,           \* history: the functionCall fragments of the call, as the vendor sent them
    accum,               \* [acc, map, next, evs]: the generator's local state and the events yielded
    \* ---- the Gemini adapter's request conversion ----
    request,             \* options.messages of the chatStream call
    rpc,                 \* "start" | "thrown" | "mapped" | "called" | "streaming" | "errored" | "idle"
    contents,            \* mappedOptions.contents
    thrown,              \* the part type named by the error chatStream threw, "" when none
    \* ---- the group chat server ----
    claude,              \* the Claude service: [queue, isProcessing, current]
    invs,                \* the processClaudeQueue invocations, in the order they were called
    joined,              \* currentUsername of every ChatServer, "" for null
    clients,             \* the keys of the clients map
    queueKeys,           \* the keys of userMessageQueues
    queues,              \* userMessageQueues: the queue of every username, <<>> without key
    chatMessages,        \* globalChat's messages
    pending,             \* the joinChat or sendMessage call suspended on every ChatServer
    bcast,               \* history: the last direct call of broadcastToAll
    nsends,              \* history: number of sendMessage calls
    \* ---- the connections of the group chat server ----
    activeServers,       \* the activeServers set
    closed,              \* the WebSocket of every ChatServer has closed
    leaving,             \* a leaveChat call is suspended on every ChatServer
    joinedAs,            \* history: the usernames every ChatServer joined with
    polls,               \* history: the last pollMessages call and what it returned
    njoins               \* history: number of joinChat calls

avars == <<adapter, apc, out, accumulatedContent, timestamp, toolCallMap,
           nextToolIndex, now, nchunks, failure>>

lvars == <<pc, maxIterations, iteration, messages, content, toolCallsMap, toolCalls,
           callPos, nevents, sst, lastFinish, adapterCalls, toolTurns, toolRounds, executed>>

bvars == <<server, bpc, srcState, pulled, records, stream, requestAborted, atGone>>

cvars == <<cancelled, inflight, started, dispatched, roundMsgs, cancelMark>>

mvars == <<fragments, accum>>

rvars == <<request, rpc, contents, thrown>>

gvars == <<claude, invs, joined, clients, queueKeys, queues, chatMessages, pending,
           bcast, nsends>>

svars == <<activeServers, closed, leaving, joinedAs, polls, njoins>>

vars == <<avars, lvars, bvars, cvars, mvars, rvars, gvars, svars>>

(***************************************************************************)
(* Bounds of the model.                                                    *)
(***************************************************************************)
MaxChunks == 3
MaxClock == 1
MaxIterationsBound == 2
MaxLoopEvents == 6
MaxSourceEvents == 3
MaxFragments == 3
MaxParts == 2

(***************************************************************************)
(* Identifiers.  A call id is a vendor id, or one of the two synthesized   *)
(* template strings `call_${Date.now()}` (OpenAI) and                      *)
(* `${name}_${Date.now()}_${nextToolIndex}` (Gemini).                      *)
(***************************************************************************)
NoId == [kind |-> "none", name |-> "", t |-> 0, n |-> 0]

VendorId(s) == [kind |-> "vendor", name |-> s, t |-> 0, n |-> 0]

OpenAISynthId(t) == [kind |-> "call", name |-> "", t |-> t, n |-> 0]

GeminiSynthId(name, t, n) == [kind |-> "synth", name |-> name, t |-> t, n |-> n]

(***************************************************************************)
(* JSON text of tool-call arguments.  An object is the sequence of its     *)
(* members in insertion order, one token per member ("a1" is "a":1); its   *)
(* JSON text is "{" members "}".                                           *)
(***************************************************************************)
PairToks == {"a1", "a2", "b2"}

KeyOf(tok) == IF tok = "b2" THEN "b" ELSE "a"

RECURSIVE SetKey(_, _)
\* obj[key] = value on an object: an existing key keeps its place.
SetKey(obj, tok) ==
    IF obj = <<>> THEN <<tok>>
    ELSE IF KeyOf(Head(obj)) = KeyOf(tok) THEN <<tok>> \o Tail(obj)
    ELSE <<Head(obj)>> \o SetKey(Tail(obj), tok)

RECURSIVE Spread(_, _)
\* { ...a, ...b }
Spread(a, b) == IF b = <<>> THEN a ELSE Spread(SetKey(a, Head(b)), Tail(b))

JSONStringify(obj) == <<"{">> \o obj \o <<"}">>

CanParse(s) ==
    /\ Len(s) >= 2
    /\ s[1] = "{"
    /\ s[Len(s)] = "}"
    /\ \A i \in 2..(Len(s) - 1) : s[i] \in PairToks

\* JSON.parse of a parseable text: a repeated key keeps its last value.
JSONParse(s) == Spread(<<>>, SubSeq(s, 2, Len(s) - 1))

(***************************************************************************)
(* Canonical events (StreamChunk).                                         *)
(***************************************************************************)
NoToolCall == [id |-> NoId, name |-> "", arguments |-> <<>>]

Ev(type, delta, text, toolCall, index, finishReason, ts) ==
    [type |-> type, delta |-> delta, content |-> text, toolCall |-> toolCall,
     index |-> index, finishReason |-> finishReason, timestamp |-> ts]

ContentEv(delta, text, ts) == Ev("content", delta, text, NoToolCall, 0, "", ts)

ThinkingEv(text, ts) == Ev("thinking", <<>>, text, NoToolCall, 0, "", ts)

ToolCallEv(id, name, arguments, index, ts) ==
    Ev("tool_call", <<>>, <<>>, [id |-> id, name |-> name, arguments |-> arguments],
       index, "", ts)

DoneEv(finishReason, ts) == Ev("done", <<>>, <<>>, NoToolCall, 0, finishReason, ts)

ErrorEv(ts) == Ev("error", <<>>, <<>>, NoToolCall, 0, "", ts)

(***************************************************************************)
(* OpenAI adapter: OpenAIAdapter.chatStream.                               *)
(***************************************************************************)
\* Raw chunks of the vendor stream.  hasChoice is whether chunk.choices[0]
\* exists; content <<>> is an absent or empty delta.content; finish "" is a
\* null finish_reason; an id of NoId is an absent toolCall.id.
OpenAIToolCallDeltas ==
    { [id |-> VendorId("c1"), name |-> "calc", arguments |-> <<"{">>, index |-> 0],
      [id |-> NoId, name |-> "", arguments |-> <<"a1", "}">>, index |-> 0],
      [id |-> VendorId("c2"), name |-> "calc", arguments |-> <<"{", "}">>, index |-> 1],
      [id |-> NoId, name |-> "calc", arguments |-> <<"{", "}">>, index |-> 1] }

OpenAIChunk(text, tcs, finish) ==
    [hasChoice |-> TRUE, content |-> text, tool_calls |-> tcs, finish |-> finish]

OpenAIChunks ==
    { [hasChoice |-> FALSE, content |-> <<>>, tool_calls |-> <<>>, finish |-> ""] }
    \cup { OpenAIChunk(c, <<>>, f) : c \in {<<"x">>, <<"y">>}, f \in {"", "stop"} }
    \cup { OpenAIChunk(<<>>, <<tc>>, "") : tc \in OpenAIToolCallDeltas }
    \cup { OpenAIChunk(<<>>, <<>>, f) : f \in {"stop", "tool_calls", "length"} }

\* accumulatedContent += delta.content
AccumulateMutant(acc, delta) == delta

Accumulate(acc, delta) == acc \o delta

\* The tool_call events of one chunk's delta.tool_calls, in order.
OpenAIToolCallEvents(tcs, ts, clock) ==
    [i \in 1..Len(tcs) |->
        ToolCallEv(IF tcs[i].id # NoId THEN tcs[i].id ELSE OpenAISynthId(clock),
                   tcs[i].name, tcs[i].arguments, tcs[i].index, ts)]

\* The events the body of the for-await loop yields for one raw chunk.
OpenAIChunkEvents(chunk, acc, ts, clock) ==
    (IF chunk.hasChoice /\ chunk.content # <<>>
        THEN <<ContentEv(chunk.content, Accumulate(acc, chunk.content), ts)>>
        ELSE <<>>)
    \o (IF chunk.hasChoice THEN OpenAIToolCallEvents(chunk.tool_calls, ts, clock) ELSE <<>>)
    \o (IF chunk.hasChoice /\ chunk.finish # ""
        THEN <<DoneEv(chunk.finish, ts)>>
        ELSE <<>>)

\* await this.client.chat.completions.create(requestParams) resolves.
OpenAICreate ==
    /\ adapter = "openai" /\ apc = "open"
    /\ apc' = "iter"
    /\ accumulatedContent' = <<>>
    /\ timestamp' = now
    /\ UNCHANGED <<adapter, out, toolCallMap, nextToolIndex, now, nchunks>>
    /\ UNCHANGED failure

\* The create call rejects: it is awaited before the try block, so the
\* rejection leaves the generator and reaches the consumer.
OpenAICreateFails ==
    /\ adapter = "openai" /\ apc = "open"
    /\ apc' = "thrown"
    /\ UNCHANGED <<adapter, out, accumulatedContent, timestamp, toolCallMap,
                   nextToolIndex, now, nchunks>>
    /\ failure' = TRUE

\* One turn of `for await (const chunk of stream)`.
OpenAIOnChunk ==
    /\ adapter = "openai" /\ apc = "iter" /\ nchunks < MaxChunks
    /\ \E chunk \in OpenAIChunks :
        /\ out' = out \o OpenAIChunkEvents(chunk, accumulatedContent, timestamp, now)
        /\ accumulatedContent' =
              IF chunk.hasChoice /\ chunk.content # <<>>
                 THEN Accumulate(accumulatedContent, chunk.content)
                 ELSE accumulatedContent
    /\ nchunks' = nchunks + 1
    /\ UNCHANGED <<adapter, apc, timestamp, toolCallMap, nextToolIndex, now>>
    /\ UNCHANGED failure

\* The vendor stream is exhausted: the generator returns.
OpenAIStreamEnd ==
    /\ adapter = "openai" /\ apc = "iter"
    /\ apc' = "ended"
    /\ UNCHANGED <<adapter, out, accumulatedContent, timestamp, toolCallMap,
                   nextToolIndex, now, nchunks>>
    /\ UNCHANGED failure

\* The vendor stream throws while it is iterated: the catch block yields one
\* error event and the generator returns.
OpenAIIterThrows ==
    /\ adapter = "openai" /\ apc = "iter"
    /\ out' = Append(out, ErrorEv(timestamp))
    /\ apc' = "ended"
    /\ UNCHANGED <<adapter, accumulatedContent, timestamp, toolCallMap,
                   nextToolIndex, now, nchunks>>
    /\ failure' = TRUE

(***************************************************************************)
(* Gemini adapter: GeminiTextAdapter.chatStream / processStreamChunks.     *)
(***************************************************************************)
\* functionCall.args as the vendor sends it: absent, an object, or a string.
AbsentArgs == [kind |-> "absent", val |-> <<>>]

ObjectArgs(obj) == [kind |-> "object", val |-> obj]

StringArgs(str) == [kind |-> "string", val |-> str]

NoFunctionCall == [present |-> FALSE, id |-> NoId, name |-> "", args |-> AbsentArgs]

FunctionCall(id, name, args) == [present |-> TRUE, id |-> id, name |-> name, args |-> args]

TextPart(text, thought) == [text |-> text, thought |-> thought, functionCall |-> NoFunctionCall]

FunctionCallPart(fc) == [text |-> <<>>, thought |-> FALSE, functionCall |-> fc]

\* A raw GenerateContentResponse.  hasParts is whether
\* candidates[0].content.parts exists; finishReason "" is an absent one.
GeminiChunk(hasParts, parts, data, finishReason) ==
    [hasParts |-> hasParts, parts |-> parts, data |-> data, finishReason |-> finishReason]

GeminiFunctionCalls ==
    { FunctionCall(VendorId("c1"), "calc", ObjectArgs(<<"a1">>)),
      FunctionCall(VendorId("c1"), "calc", ObjectArgs(<<"b2">>)),
      FunctionCall(VendorId("c1"), "other", ObjectArgs(<<"a2">>)),
      FunctionCall(VendorId("c1"), "calc", StringArgs(<<"{", "a1">>)),
      FunctionCall(NoId, "calc", AbsentArgs) }

GeminiChunks ==
    { GeminiChunk(FALSE, <<>>, <<>>, ""),
      GeminiChunk(FALSE, <<>>, <<"y">>, ""),
      GeminiChunk(TRUE, <<TextPart(<<"x">>, FALSE)>>, <<>>, ""),
      GeminiChunk(TRUE, <<TextPart(<<"x">>, TRUE)>>, <<>>, ""),
      GeminiChunk(TRUE, <<TextPart(<<"y">>, TRUE), TextPart(<<"x">>, FALSE)>>, <<>>, "STOP"),
      GeminiChunk(FALSE, <<>>, <<>>, "STOP"),
      GeminiChunk(TRUE, <<FunctionCallPart(FunctionCall(VendorId("c2"), "calc", ObjectArgs(<<"b2">>)))>>,
                  <<>>, "STOP"),
      GeminiChunk(FALSE, <<>>, <<>>, "MAX_TOKENS"),
      GeminiChunk(TRUE, <<FunctionCallPart(FunctionCall(VendorId("c1"), "calc", ObjectArgs(<<"a1">>)))>>,
                  <<>>, "UNEXPECTED_TOOL_CALL"),
      GeminiChunk(TRUE, <<FunctionCallPart(FunctionCall(NoId, "calc", ObjectArgs(<<"a1">>)))>>,
                  <<>>, "UNEXPECTED_TOOL_CALL") }
    \cup { GeminiChunk(TRUE, <<FunctionCallPart(fc)>>, <<>>, "") : fc \in GeminiFunctionCalls }

\* toolCallMap: a Map in insertion order, a sequence of entries.
MapHas(map, id) == \E i \in 1..Len(map) : map[i].id = id

MapGet(map, id) == map[CHOOSE i \in 1..Len(map) : map[i].id = id]

\* Map.set: an existing key keeps its place and takes the new value.
MapSet(map, entry) ==
    IF MapHas(map, entry.id)
       THEN [i \in 1..Len(map) |-> IF map[i].id = entry.id THEN entry ELSE map[i]]
       ELSE Append(map, entry)

\* functionCall.id || `${functionCall.name}_${Date.now()}_${nextToolIndex}`
GeminiToolCallId(fc, clock, next) ==
    IF fc.id # NoId THEN fc.id ELSE GeminiSynthId(fc.name, clock, next)

\* functionCall.args || {}
GeminiFunctionArgs(fc) ==
    IF fc.args.kind = "absent" \/ (fc.args.kind = "string" /\ fc.args.val = <<>>)
       THEN ObjectArgs(<<>>)
       ELSE fc.args

\* typeof functionArgs === 'string' ? functionArgs : JSON.stringify(functionArgs)
ArgsText(fargs) == IF fargs.kind = "string" THEN fargs.val ELSE JSONStringify(fargs.val)

\* The same merge with the new fragment replacing what was accumulated.
MergeArgsReplacing(existingText, fargs) == ArgsText(fargs)

\* The try/catch that merges a later fragment into an existing record.
MergeArgs(existingText, fargs) ==
    IF CanParse(existingText) /\ (fargs.kind = "string" => CanParse(fargs.val))
       THEN JSONStringify(Spread(JSONParse(existingText),
                                 IF fargs.kind = "string" THEN JSONParse(fargs.val)
                                                         ELSE fargs.val))
       ELSE ArgsText(fargs)

\* st is the generator's local state while one chunk is processed:
\* [acc, map, next, evs] = accumulatedContent, toolCallMap, nextToolIndex and
\* the events yielded for this chunk.
GeminiTextOfPart(st, part, ts) ==
    IF part.text = <<>> THEN st
    ELSE IF part.thought
       THEN [st EXCEPT !.evs = Append(@, ThinkingEv(part.text, ts))]
       ELSE [st EXCEPT !.acc = Accumulate(st.acc, part.text),
                       !.evs = Append(@, ContentEv(part.text, Accumulate(st.acc, part.text), ts))]

GeminiFunctionCallOfPart(st, part, ts, clock) ==
    IF ~part.functionCall.present THEN st
    ELSE LET fc == part.functionCall
             toolCallId == GeminiToolCallId(fc, clock, st.next)
             functionArgs == GeminiFunctionArgs(fc)
             isNew == ~MapHas(st.map, toolCallId)
             toolCallData ==
                 IF isNew
                    THEN [id |-> toolCallId, name |-> fc.name,
                          args |-> ArgsText(functionArgs), index |-> st.next]
                    ELSE [MapGet(st.map, toolCallId) EXCEPT
                             !.args = MergeArgs(MapGet(st.map, toolCallId).args, functionArgs)]
         IN [st EXCEPT !.map = MapSet(st.map, toolCallData),
                       !.next = IF isNew THEN st.next + 1 ELSE st.next,
                       !.evs = Append(@, ToolCallEv(toolCallId, toolCallData.name,
                                                    toolCallData.args, toolCallData.index, ts))]

RECURSIVE GeminiParts(_, _, _, _)
\* for (const part of parts) { ... }
GeminiParts(st, parts, ts, clock) ==
    IF parts = <<>> THEN st
    ELSE GeminiParts(GeminiFunctionCallOfPart(GeminiTextOfPart(st, Head(parts), ts),
                                              Head(parts), ts, clock),
                     Tail(parts), ts, clock)

RECURSIVE GeminiUnexpectedToolCalls(_, _, _, _)
\* finishReason === UNEXPECTED_TOOL_CALL: every functionCall part of the
\* chunk is stored under a fresh index and yielded.
GeminiUnexpectedToolCalls(st, parts, ts, clock) ==
    IF parts = <<>> THEN st
    ELSE IF ~Head(parts).functionCall.present
       THEN GeminiUnexpectedToolCalls(st, Tail(parts), ts, clock)
       ELSE LET fc == Head(parts).functionCall
                toolCallId == GeminiToolCallId(fc, clock, st.next)
                functionArgs == GeminiFunctionArgs(fc)
                entry == [id |-> toolCallId, name |-> fc.name,
                          args |-> ArgsText(functionArgs), index |-> st.next]
            IN GeminiUnexpectedToolCalls(
                  [st EXCEPT !.map = MapSet(st.map, entry),
                             !.next = st.next + 1,
                             !.evs = Append(@, ToolCallEv(toolCallId, fc.name,
                                                          ArgsText(functionArgs),
                                                          (st.next + 1) - 1, ts))],
                  Tail(parts), ts, clock)

\* The content half of the loop body: the parts, or else chunk.data.
GeminiContent(st, chunk, ts, clock) ==
    IF chunk.hasParts THEN GeminiParts(st, chunk.parts, ts, clock)
    ELSE IF chunk.data # <<>>
       THEN [st EXCEPT !.acc = Accumulate(st.acc, chunk.data),
                       !.evs = Append(@, ContentEv(chunk.data, Accumulate(st.acc, chunk.data), ts))]
       ELSE st

\* The same finish half with the done event always reporting stop.
GeminiFinishAlwaysStop(st, chunk, ts, clock) ==
    IF chunk.finishReason = "" THEN st
    ELSE LET st1 == IF chunk.finishReason = "UNEXPECTED_TOOL_CALL" /\ chunk.hasParts
                       THEN GeminiUnexpectedToolCalls(st, chunk.parts, ts, clock)
                       ELSE st
             st2 == IF chunk.finishReason = "MAX_TOKENS"
                       THEN [st1 EXCEPT !.evs = Append(@, ErrorEv(ts))]
                       ELSE st1
         IN [st2 EXCEPT !.evs = Append(@, DoneEv("stop", ts))]

\* The finish half of the loop body.
GeminiFinish(st, chunk, ts, clock) ==
    IF chunk.finishReason = "" THEN st
    ELSE LET st1 == IF chunk.finishReason = "UNEXPECTED_TOOL_CALL" /\ chunk.hasParts
                       THEN GeminiUnexpectedToolCalls(st, chunk.parts, ts, clock)
                       ELSE st
             st2 == IF chunk.finishReason = "MAX_TOKENS"
                       THEN [st1 EXCEPT !.evs = Append(@, ErrorEv(ts))]
                       ELSE st1
         IN [st2 EXCEPT !.evs = Append(@, DoneEv(IF Len(st2.map) > 0 THEN "tool_calls"
                                                                      ELSE "stop", ts))]

GeminiChunkStep(st, chunk, ts, clock) ==
    GeminiFinish(GeminiContent(st, chunk, ts, clock), chunk, ts, clock)

\* generateContentStream resolves and processStreamChunks starts.
GeminiOpen ==
    /\ adapter = "gemini" /\ apc = "open"
    /\ apc' = "iter"
    /\ timestamp' = now
    /\ accumulatedContent' = <<>>
    /\ toolCallMap' = <<>>
    /\ nextToolIndex' = 0
    /\ UNCHANGED <<adapter, out, now, nchunks>>
    /\ UNCHANGED failure

\* generateContentStream rejects inside the try block: one error event
\* stamped with Date.now() of the catch block.
GeminiOpenFails ==
    /\ adapter = "gemini" /\ apc = "open"
    /\ out' = Append(out, ErrorEv(now))
    /\ apc' = "ended"
    /\ UNCHANGED <<adapter, accumulatedContent, timestamp, toolCallMap,
                   nextToolIndex, now, nchunks>>
    /\ failure' = TRUE

\* One turn of `for await (const chunk of result)`.
GeminiOnChunk ==
    /\ adapter = "gemini" /\ apc = "iter" /\ nchunks < MaxChunks
    /\ \E chunk \in GeminiChunks :
        LET st == GeminiChunkStep([acc |-> accumulatedContent, map |-> toolCallMap,
                                   next |-> nextToolIndex, evs |-> <<>>],
                                  chunk, timestamp, now)
        IN /\ out' = out \o st.evs
           /\ accumulatedContent' = st.acc
           /\ toolCallMap' = st.map
           /\ nextToolIndex' = st.next
    /\ nchunks' = nchunks + 1
    /\ UNCHANGED <<adapter, apc, timestamp, now>>
    /\ UNCHANGED failure

\* The vendor stream is exhausted: both generators return.
GeminiStreamEnd ==
    /\ adapter = "gemini" /\ apc = "iter"
    /\ apc' = "ended"
    /\ UNCHANGED <<adapter, out, accumulatedContent, timestamp, toolCallMap,
                   nextToolIndex, now, nchunks>>
    /\ UNCHANGED failure

\* The same step with the error event stamped with the start of the epoch.
GeminiIterThrowsUnstamped ==
    /\ adapter = "gemini" /\ apc = "iter"
    /\ out' = Append(out, ErrorEv(0))
    /\ apc' = "ended"
    /\ UNCHANGED <<adapter, accumulatedContent, timestamp, toolCallMap,
                   nextToolIndex, now, nchunks>>
    /\ failure' = TRUE

\* The vendor stream throws while processStreamChunks iterates it: the
\* exception passes through yield* into chatStream's catch block.
GeminiIterThrows ==
    /\ adapter = "gemini" /\ apc = "iter"
    /\ out' = Append(out, ErrorEv(now))
    /\ apc' = "ended"
    /\ UNCHANGED <<adapter, accumulatedContent, timestamp, toolCallMap,
                   nextToolIndex, now, nchunks>>
    /\ failure' = TRUE

\* Time passes between two reads of Date.now().
Tick ==
    /\ now < MaxClock
    /\ now' = now + 1
    /\ UNCHANGED <<adapter, apc, out, accumulatedContent, timestamp, toolCallMap,
                   nextToolIndex, nchunks>>
    /\ UNCHANGED failure

AdapterStart ==
    /\ apc = "open"
    /\ out = <<>>
    /\ accumulatedContent = <<>>
    /\ timestamp = 0
    /\ toolCallMap = <<>>
    /\ nextToolIndex = 0
    /\ now = 0
    /\ nchunks = 0
    /\ failure = FALSE

\* No adapter stream is modelled.
AdapterIdle ==
    /\ adapter = "none"
    /\ apc = "idle"
    /\ out = <<>>
    /\ accumulatedContent = <<>>
    /\ timestamp = 0
    /\ toolCallMap = <<>>
    /\ nextToolIndex = 0
    /\ now = 0
    /\ nchunks = 0
    /\ failure = FALSE

\* No loop is modelled.
LoopIdle ==
    /\ pc = "idle"
    /\ maxIterations = 0
    /\ iteration = 0
    /\ messages = <<>>
    /\ content = <<>>
    /\ toolCallsMap = <<>>
    /\ toolCalls = <<>>
    /\ callPos = 0
    /\ nevents = 0
    /\ sst = "live"
    /\ lastFinish = ""
    /\ adapterCalls = 0
    /\ toolTurns = 0
    /\ toolRounds = 0
    /\ executed = <<>>

\* No response bridge is modelled.
BridgeIdle ==
    /\ server = "ts"
    /\ bpc = "idle"
    /\ srcState = "open"
    /\ pulled = <<>>
    /\ records = <<>>
    /\ stream = "readable"
    /\ requestAborted = FALSE
    /\ atGone = <<>>

\* No cancellation is modelled.
CancelIdle ==
    /\ cancelled = FALSE
    /\ inflight = FALSE
    /\ started = 0
    /\ dispatched = 0
    /\ roundMsgs = 0
    /\ cancelMark = <<>>

\* No connection of the group chat server is modelled.
SessionIdle ==
    /\ activeServers = {}
    /\ closed = <<>>
    /\ leaving = <<>>
    /\ joinedAs = <<>>
    /\ polls = <<>>
    /\ njoins = 0

\* No group chat server is modelled.
GroupChatIdle ==
    /\ claude = [queue |-> <<>>, isProcessing |-> FALSE, current |-> ""]
    /\ invs = <<>>
    /\ joined = <<>>
    /\ clients = {}
    /\ queueKeys = {}
    /\ queues = <<>>
    /\ chatMessages = <<>>
    /\ pending = <<>>
    /\ bcast = <<>>
    /\ nsends = 0

\* No request conversion is modelled.
RequestIdle ==
    /\ request = <<>>
    /\ rpc = "idle"
    /\ contents = <<>>
    /\ thrown = ""

\* No accumulation of a single call is modelled.
AccumulatorIdle ==
    /\ fragments = <<>>
    /\ accum = [acc |-> <<>>, map |-> <<>>, next |-> 0, evs |-> <<>>]

AdapterInit ==
    /\ adapter \in {"openai", "gemini"}
    /\ AdapterStart
    /\ LoopIdle
    /\ BridgeIdle
    /\ CancelIdle
    /\ AccumulatorIdle
    /\ RequestIdle
    /\ GroupChatIdle
    /\ SessionIdle

AdapterNext ==
    \/ OpenAICreate /\ UNCHANGED <<lvars, bvars, cvars, mvars, rvars, gvars, svars>>
    \/ OpenAICreateFails /\ UNCHANGED <<lvars, bvars, cvars, mvars, rvars, gvars, svars>>
    \/ OpenAIOnChunk /\ UNCHANGED <<lvars, bvars, cvars, mvars, rvars, gvars, svars>>
    \/ OpenAIStreamEnd /\ UNCHANGED <<lvars, bvars, cvars, mvars, rvars, gvars, svars>>
    \/ OpenAIIterThrows /\ UNCHANGED <<lvars, bvars, cvars, mvars, rvars, gvars, svars>>
    \/ GeminiOpen /\ UNCHANGED <<lvars, bvars, cvars, mvars, rvars, gvars, svars>>
    \/ GeminiOpenFails /\ UNCHANGED <<lvars, bvars, cvars, mvars, rvars, gvars, svars>>
    \/ GeminiOnChunk /\ UNCHANGED <<lvars, bvars, cvars, mvars, rvars, gvars, svars>>
    \/ GeminiStreamEnd /\ UNCHANGED <<lvars, bvars, cvars, mvars, rvars, gvars, svars>>
    \/ GeminiIterThrows /\ UNCHANGED <<lvars, bvars, cvars, mvars, rvars, gvars, svars>>
    \/ Tick /\ UNCHANGED <<lvars, bvars, cvars, mvars, rvars, gvars, svars>>

SpecAdapter == AdapterInit /\ [][AdapterNext]_vars

(***************************************************************************)
(* The tool-calling loop of the tool-calling example (demo).  The stream   *)
(* of one turn, ai.streamChat(...), is an input: its events are drawn one  *)
(* at a time from the events an adapter stream can hold.                   *)
(***************************************************************************)
Message(role, text, tcs, toolCallId) ==
    [role |-> role, content |-> text, toolCalls |-> tcs, toolCallId |-> toolCallId]

UserMessage == Message("user", <<"q">>, <<>>, NoId)

\* A tool call as the loop holds it; index is the key it has in toolCallsMap.
Call(id, name, args, index) == [id |-> id, name |-> name, arguments |-> args, index |-> index]

\* The names of the tools array the demo passes to streamChat ("calc" is
\* calculate).
DemoTools == {"calc"}

\* The events the next chunk of the turn's stream can be, given the content
\* the stream has accumulated so far.
LoopEvents(acc) ==
    { ContentEv(<<"x">>, acc \o <<"x">>, 0),
      ToolCallEv(VendorId("c1"), "calc", <<"{">>, 0, 0),
      ToolCallEv(OpenAISynthId(0), "", <<"a1", "}">>, 0, 0),
      ToolCallEv(VendorId("c2"), "calc", <<"{", "}">>, 1, 0),
      ToolCallEv(VendorId("c3"), "other", <<"{", "a1", "}">>, 2, 0),
      DoneEv("stop", 0),
      DoneEv("length", 0),
      DoneEv("tool_calls", 0),
      ErrorEv(0) }

\* What an adapter stream can deliver next: nothing follows a done event,
\* and only a done event follows an error event.
Deliverable(ev, state) ==
    CASE state = "live" -> TRUE
      [] state = "errored" -> ev.type = "done"
      [] OTHER -> FALSE

\* The tool_call branch: toolCallsMap.get(chunk.index) || {id, name: "", args: ""},
\* the name taken when the fragment has one, the arguments appended.
DemoMergeToolCall(map, ev) ==
    LET has == \E i \in 1..Len(map) : map[i].index = ev.index
        existing == IF has THEN map[CHOOSE i \in 1..Len(map) : map[i].index = ev.index]
                           ELSE Call(ev.toolCall.id, "", <<>>, ev.index)
        merged == [existing EXCEPT
                      !.name = IF ev.toolCall.name # "" THEN ev.toolCall.name ELSE @,
                      !.arguments = @ \o ev.toolCall.arguments]
    IN IF has THEN [i \in 1..Len(map) |-> IF map[i].index = ev.index THEN merged ELSE map[i]]
              ELSE Append(map, merged)

\* calculate(JSON.parse(call.function.arguments).expression): member "a" is
\* the expression; without it the TypeError is caught inside calculate.
Calculate(obj) ==
    IF \E i \in 1..Len(obj) : KeyOf(obj[i]) = "a" THEN <<"result">> ELSE <<"error">>

\* while (iteration < maxIterations) { iteration++; ...; ai.streamChat(...) }
DemoStartTurn ==
    /\ pc = "Start" /\ iteration < maxIterations
    /\ iteration' = iteration + 1
    /\ toolCalls' = <<>>
    /\ toolCallsMap' = <<>>
    /\ content' = <<>>
    /\ pc' = "Streaming"
    /\ sst' = "live"
    /\ lastFinish' = ""
    /\ adapterCalls' = adapterCalls + 1
    /\ executed' = <<>>
    /\ UNCHANGED <<maxIterations, messages, callPos, nevents, toolTurns, toolRounds>>

\* The while condition fails: the loop is left without another model call.
DemoBoundReached ==
    /\ pc = "Start" /\ ~(iteration < maxIterations)
    /\ pc' = "Complete"
    /\ UNCHANGED <<maxIterations, iteration, messages, content, toolCallsMap, toolCalls,
                   callPos, nevents, sst, lastFinish, adapterCalls, toolTurns, toolRounds,
                   executed>>

\* One turn of `for await (const chunk of ai.streamChat(...))`.
DemoOnChunk ==
    /\ pc = "Streaming" /\ nevents < MaxLoopEvents
    /\ \E ev \in LoopEvents(content) :
        /\ Deliverable(ev, sst)
        /\ content' = IF ev.type = "content" THEN ev.content ELSE content
        /\ toolCallsMap' = IF ev.type = "tool_call" THEN DemoMergeToolCall(toolCallsMap, ev)
                                                     ELSE toolCallsMap
        /\ toolCalls' = IF ev.type = "done" /\ ev.finishReason = "tool_calls"
                           THEN toolCalls \o toolCallsMap
                           ELSE toolCalls
        /\ sst' = CASE ev.type = "done" -> "terminal"
                    [] ev.type = "error" -> "errored"
                    [] OTHER -> sst
        /\ lastFinish' = IF ev.type = "done" THEN ev.finishReason ELSE lastFinish
    /\ nevents' = nevents + 1
    /\ UNCHANGED <<pc, maxIterations, iteration, messages, callPos, adapterCalls,
                   toolTurns, toolRounds, executed>>

\* The stream throws: the exception reaches the catch around the loop.
DemoStreamThrows ==
    /\ pc = "Streaming" /\ sst = "live"
    /\ pc' = "Failed"
    /\ UNCHANGED <<maxIterations, iteration, messages, content, toolCallsMap, toolCalls,
                   callPos, nevents, sst, lastFinish, adapterCalls, toolTurns, toolRounds,
                   executed>>

\* The stream is exhausted and tool calls were collected: the assistant
\* message with the tool calls is pushed.
DemoToolCallsRequested ==
    /\ pc = "Streaming" /\ Len(toolCalls) > 0
    /\ messages' = Append(messages, Message("assistant", content, toolCalls, NoId))
    /\ callPos' = 1
    /\ pc' = "ExecutingTools"
    /\ toolTurns' = toolTurns + 1
    /\ UNCHANGED <<maxIterations, iteration, content, toolCallsMap, toolCalls, nevents,
                   sst, lastFinish, adapterCalls, toolRounds, executed>>

\* The stream is exhausted and no tool call was collected: break.
DemoConversationComplete ==
    /\ pc = "Streaming" /\ ~(Len(toolCalls) > 0)
    /\ pc' = "Complete"
    /\ UNCHANGED <<maxIterations, iteration, messages, content, toolCallsMap, toolCalls,
                   callPos, nevents, sst, lastFinish, adapterCalls, toolTurns, toolRounds,
                   executed>>

\* The same step with the result put in the place of the last message.
DemoExecuteToolOverwriting ==
    /\ pc = "ExecutingTools" /\ callPos <= Len(toolCalls)
    /\ CanParse(toolCalls[callPos].arguments)
    /\ messages' = [messages EXCEPT ![Len(messages)] =
                        Message("tool", Calculate(JSONParse(toolCalls[callPos].arguments)),
                                <<>>, toolCalls[callPos].id)]
    /\ executed' = Append(executed, toolCalls[callPos])
    /\ callPos' = callPos + 1
    /\ pc' = IF callPos = Len(toolCalls) THEN "Start" ELSE pc
    /\ toolRounds' = IF callPos = Len(toolCalls) THEN toolRounds + 1 ELSE toolRounds
    /\ UNCHANGED <<maxIterations, iteration, content, toolCallsMap, toolCalls, nevents,
                   sst, lastFinish, adapterCalls, toolTurns>>

\* One turn of `for (const call of toolCalls)`: calculate runs, whatever the
\* call's function name, and its result message is pushed; after the last
\* call the loop goes back to its head.
DemoExecuteTool ==
    /\ pc = "ExecutingTools" /\ callPos <= Len(toolCalls)
    /\ CanParse(toolCalls[callPos].arguments)
    /\ messages' = Append(messages,
                          Message("tool", Calculate(JSONParse(toolCalls[callPos].arguments)),
                                  <<>>, toolCalls[callPos].id))
    /\ executed' = Append(executed, toolCalls[callPos])
    /\ callPos' = callPos + 1
    /\ pc' = IF callPos = Len(toolCalls) THEN "Start" ELSE pc
    /\ toolRounds' = IF callPos = Len(toolCalls) THEN toolRounds + 1 ELSE toolRounds
    /\ UNCHANGED <<maxIterations, iteration, content, toolCallsMap, toolCalls, nevents,
                   sst, lastFinish, adapterCalls, toolTurns>>

\* JSON.parse(call.function.arguments) throws: the exception reaches the
\* catch around the loop.
DemoParseThrows ==
    /\ pc = "ExecutingTools" /\ callPos <= Len(toolCalls)
    /\ ~CanParse(toolCalls[callPos].arguments)
    /\ pc' = "Failed"
    /\ UNCHANGED <<maxIterations, iteration, messages, content, toolCallsMap, toolCalls,
                   callPos, nevents, sst, lastFinish, adapterCalls, toolTurns, toolRounds,
                   executed>>

DemoInit ==
    /\ AdapterIdle
    /\ BridgeIdle
    /\ CancelIdle
    /\ AccumulatorIdle
    /\ RequestIdle
    /\ GroupChatIdle
    /\ SessionIdle
    /\ pc = "Start"
    /\ maxIterations \in 1..MaxIterationsBound
    /\ iteration = 0
    /\ messages = <<UserMessage>>
    /\ content = <<>>
    /\ toolCallsMap = <<>>
    /\ toolCalls = <<>>
    /\ callPos = 0
    /\ nevents = 0
    /\ sst = "live"
    /\ lastFinish = ""
    /\ adapterCalls = 0
    /\ toolTurns = 0
    /\ toolRounds = 0
    /\ executed = <<>>

DemoNext ==
    \/ DemoStartTurn /\ UNCHANGED <<avars, bvars, cvars, mvars, rvars, gvars, svars>>
    \/ DemoBoundReached /\ UNCHANGED <<avars, bvars, cvars, mvars, rvars, gvars, svars>>
    \/ DemoOnChunk /\ UNCHANGED <<avars, bvars, cvars, mvars, rvars, gvars, svars>>
    \/ DemoStreamThrows /\ UNCHANGED <<avars, bvars, cvars, mvars, rvars, gvars, svars>>
    \/ DemoToolCallsRequested /\ UNCHANGED <<avars, bvars, cvars, mvars, rvars, gvars, svars>>
    \/ DemoConversationComplete /\ UNCHANGED <<avars, bvars, cvars, mvars, rvars, gvars, svars>>
    \/ DemoExecuteTool /\ UNCHANGED <<avars, bvars, cvars, mvars, rvars, gvars, svars>>
    \/ DemoParseThrows /\ UNCHANGED <<avars, bvars, cvars, mvars, rvars, gvars, svars>>

SpecDemo == DemoInit /\ [][DemoNext]_vars

(***************************************************************************)
(* The response bridge: toReadableStream / toStreamResponse, as the chat   *)
(* route's POST handler uses it.  The source iterable is an input; the     *)
(* ReadableStream follows the Streams standard: start() runs at once,      *)
(* cancel() by the consumer closes the stream, and controller.enqueue on a *)
(* stream that is no longer readable throws a TypeError.                   *)
(***************************************************************************)
\* The events the source can yield next.
SourceEvents == { ContentEv(<<"x">>, <<"x">>, 0), DoneEv("stop", 0) }

\* `data: ${JSON.stringify(chunk)}\n\n`
DataRecord(ev) == [kind |-> "event", event |-> ev]

\* `data: [DONE]\n\n`
DoneRecord == [kind |-> "sentinel", event |-> Ev("", <<>>, <<>>, NoToolCall, 0, "", 0)]

\* `data: ${JSON.stringify({type: "error", error})}\n\n`
ErrorRecord == [kind |-> "error", event |-> ErrorEv(0)]

\* What the history variable records when the consumer goes away.
GoneMark == IF atGone = <<>> THEN <<Len(pulled), Len(records)>> ELSE atGone

\* POST: request.signal is already aborted, the handler answers 499.
PostAlreadyAborted ==
    /\ server = "ts" /\ bpc = "request" /\ requestAborted
    /\ bpc' = "refused"
    /\ UNCHANGED <<server, srcState, pulled, records, stream, requestAborted, atGone>>

\* POST: chat(...) is created and toStreamResponse(stream, ...) returned;
\* the ReadableStream's start() begins to iterate the source.
PostStreams ==
    /\ server = "ts" /\ bpc = "request" /\ ~requestAborted
    /\ bpc' = "running"
    /\ UNCHANGED <<server, srcState, pulled, records, stream, requestAborted, atGone>>

\* POST: chat(...) throws before a stream exists; the handler answers 499 to
\* an AbortError and a 500 with an error body to anything else.
PostChatThrows ==
    /\ server = "ts" /\ bpc = "request" /\ ~requestAborted
    /\ \E name \in {"AbortError", "Error"} :
        bpc' = IF name = "AbortError" THEN "refused" ELSE "error500"
    /\ UNCHANGED <<server, srcState, pulled, records, stream, requestAborted, atGone>>

\* POST /chat of the PHP server: the headers are sent and the foreach over
\* the converted chunks begins.
PhpPostStreams ==
    /\ server = "php" /\ bpc = "request"
    /\ bpc' = "running"
    /\ UNCHANGED <<server, srcState, pulled, records, stream, requestAborted, atGone>>

\* The same step writing the new record in front of the earlier ones.
BridgeEnqueueReordering ==
    /\ bpc = "running" /\ srcState = "open" /\ stream = "readable"
    /\ Len(pulled) < MaxSourceEvents
    /\ \E ev \in SourceEvents :
        /\ pulled' = Append(pulled, ev)
        /\ records' = <<DataRecord(ev)>> \o records
    /\ UNCHANGED <<server, bpc, srcState, stream, requestAborted, atGone>>

\* for await (const chunk of stream) controller.enqueue(...); in PHP,
\* foreach ($chunks as $chunk) echo SSEFormatter::formatChunk($chunk).
BridgeEnqueue ==
    /\ bpc = "running" /\ srcState = "open" /\ stream = "readable"
    /\ Len(pulled) < MaxSourceEvents
    /\ \E ev \in SourceEvents :
        /\ pulled' = Append(pulled, ev)
        /\ records' = Append(records, DataRecord(ev))
    /\ UNCHANGED <<server, bpc, srcState, stream, requestAborted, atGone>>

\* The same step after the consumer cancelled the stream: enqueue throws,
\* the enqueue of the catch block throws again, start() rejects, and leaving
\* the for-await loop returns the source iterator.
BridgeEnqueueThrows ==
    /\ bpc = "running" /\ srcState = "open" /\ stream = "cancelled"
    /\ Len(pulled) < MaxSourceEvents
    /\ \E ev \in SourceEvents : pulled' = Append(pulled, ev)
    /\ srcState' = "returned"
    /\ bpc' = "rejected"
    /\ UNCHANGED <<server, records, stream, requestAborted, atGone>>

\* The source is exhausted: the completion marker is enqueued and the
\* stream closed (or, after a cancel, the enqueue throws twice).
BridgeSourceEnds ==
    /\ bpc = "running" /\ srcState = "open"
    /\ srcState' = "ended"
    /\ IF stream = "readable"
          THEN /\ records' = Append(records, DoneRecord)
               /\ stream' = "closed"
               /\ bpc' = "closed"
          ELSE /\ bpc' = "rejected"
               /\ UNCHANGED <<records, stream>>
    /\ UNCHANGED <<server, pulled, requestAborted, atGone>>

\* What the source is left as by a throw: an AbortError raised by a
\* cancelled fetch (the TypeScript bridge only) or any other error.
ThrowOutcomes == IF server = "ts" THEN {"thrown", "aborted"} ELSE {"thrown"}

\* The same step with the completion marker written after the error record.
BridgeSourceThrowsThenDone ==
    /\ bpc = "running" /\ srcState = "open"
    /\ srcState' \in ThrowOutcomes
    /\ IF stream = "readable"
          THEN /\ records' = records \o <<ErrorRecord, DoneRecord>>
               /\ stream' = "closed"
               /\ bpc' = "closed"
          ELSE /\ bpc' = "rejected"
               /\ UNCHANGED <<records, stream>>
    /\ UNCHANGED <<server, pulled, requestAborted, atGone>>

\* The source throws: the catch block enqueues the error record and closes
\* the stream (or, after a cancel, its enqueue throws).
BridgeSourceThrows ==
    /\ bpc = "running" /\ srcState = "open"
    /\ srcState' \in ThrowOutcomes
    /\ IF stream = "readable"
          THEN /\ records' = Append(records, ErrorRecord)
               /\ stream' = "closed"
               /\ bpc' = "closed"
          ELSE /\ bpc' = "rejected"
               /\ UNCHANGED <<records, stream>>
    /\ UNCHANGED <<server, pulled, requestAborted, atGone>>

\* The consumer cancels the response stream.  toReadableStream passes no
\* cancel() to the ReadableStream, so only the stream's own state changes.
ConsumerCancels ==
    /\ server = "ts" /\ bpc = "running" /\ stream = "readable"
    /\ stream' = "cancelled"
    /\ atGone' = GoneMark
    /\ UNCHANGED <<server, bpc, srcState, pulled, records, requestAborted>>

\* The client disconnects: request.signal aborts.  The handler read
\* request.signal once and registered no listener on it.
RequestAborts ==
    /\ server = "ts" /\ bpc \in {"request", "running"} /\ ~requestAborted
    /\ requestAborted' = TRUE
    /\ atGone' = IF bpc = "running" THEN GoneMark ELSE atGone
    /\ UNCHANGED <<server, bpc, srcState, pulled, records, stream>>

BridgeInit ==
    /\ AdapterIdle
    /\ LoopIdle
    /\ CancelIdle
    /\ AccumulatorIdle
    /\ RequestIdle
    /\ GroupChatIdle
    /\ SessionIdle
    /\ server \in {"ts", "php"}
    /\ bpc = "request"
    /\ srcState = "open"
    /\ pulled = <<>>
    /\ records = <<>>
    /\ stream = "readable"
    /\ requestAborted = FALSE
    /\ atGone = <<>>

BridgeNext ==
    \/ PostAlreadyAborted /\ UNCHANGED <<avars, lvars, cvars, mvars, rvars, gvars, svars>>
    \/ PostStreams /\ UNCHANGED <<avars, lvars, cvars, mvars, rvars, gvars, svars>>
    \/ PostChatThrows /\ UNCHANGED <<avars, lvars, cvars, mvars, rvars, gvars, svars>>
    \/ PhpPostStreams /\ UNCHANGED <<avars, lvars, cvars, mvars, rvars, gvars, svars>>
    \/ BridgeEnqueue /\ UNCHANGED <<avars, lvars, cvars, mvars, rvars, gvars, svars>>
    \/ BridgeEnqueueThrows /\ UNCHANGED <<avars, lvars, cvars, mvars, rvars, gvars, svars>>
    \/ BridgeSourceEnds /\ UNCHANGED <<avars, lvars, cvars, mvars, rvars, gvars, svars>>
    \/ BridgeSourceThrows /\ UNCHANGED <<avars, lvars, cvars, mvars, rvars, gvars, svars>>
    \/ ConsumerCancels /\ UNCHANGED <<avars, lvars, cvars, mvars, rvars, gvars, svars>>
    \/ RequestAborts /\ UNCHANGED <<avars, lvars, cvars, mvars, rvars, gvars, svars>>

SpecBridge == BridgeInit /\ [][BridgeNext]_vars

(***************************************************************************)
(* The agent-loop orchestrator with cancellation: chat({..., tools,        *)
(* agentLoopStrategy, abortController}) as the chat route calls it.  Its   *)
(* state machine is the one of the orchestrator's design: Start,           *)
(* Streaming, ExecutingTools, and the terminals Complete, Cancelled and    *)
(* Failed; cancellation is cooperative, checked at the top of every        *)
(* iteration, once per stream event and before every tool executor.        *)
(***************************************************************************)
RegisteredTools == {"calc"}

\* The events the next chunk of the turn's stream can be.
OrchestratorEvents(acc) ==
    { ContentEv(<<"x">>, acc \o <<"x">>, 0),
      ToolCallEv(VendorId("c1"), "calc", <<"{", "a1", "}">>, 0, 0),
      ToolCallEv(VendorId("c2"), "calc", <<"{">>, 1, 0),
      ToolCallEv(VendorId("c2"), "", <<"}">>, 1, 0),
      ToolCallEv(VendorId("c3"), "other", <<"{", "}">>, 2, 0),
      DoneEv("stop", 0),
      DoneEv("tool_calls", 0),
      ErrorEv(0) }

\* merge(existing | absent, fragment): keyed by call id; the name is set by
\* the first fragment that carries one, the arguments are concatenated, the
\* index is the one of the first fragment.
AccumulatorMerge(recs, ev) ==
    LET has == \E i \in 1..Len(recs) : recs[i].id = ev.toolCall.id
        existing == IF has THEN recs[CHOOSE i \in 1..Len(recs) : recs[i].id = ev.toolCall.id]
                           ELSE Call(ev.toolCall.id, "", <<>>, ev.index)
        merged == [existing EXCEPT
                      !.name = IF @ = "" THEN ev.toolCall.name ELSE @,
                      !.arguments = @ \o ev.toolCall.arguments]
    IN IF has THEN [i \in 1..Len(recs) |-> IF recs[i].id = ev.toolCall.id THEN merged
                                                                         ELSE recs[i]]
              ELSE Append(recs, merged)

RECURSIVE InsertByIndex(_, _)
InsertByIndex(sorted, rec) ==
    IF sorted = <<>> THEN <<rec>>
    ELSE IF rec.index < Head(sorted).index THEN <<rec>> \o sorted
    ELSE <<Head(sorted)>> \o InsertByIndex(Tail(sorted), rec)

RECURSIVE SortByIndex(_)
\* The records in ascending order of index.
SortByIndex(recs) ==
    IF recs = <<>> THEN <<>>
    ELSE InsertByIndex(SortByIndex(SubSeq(recs, 1, Len(recs) - 1)), recs[Len(recs)])

\* Start: the adapter is invoked with the current messages.
OrchestratorStart ==
    /\ pc = "Start" /\ ~cancelled
    /\ pc' = "Streaming"
    /\ toolCalls' = <<>>
    /\ toolCallsMap' = <<>>
    /\ content' = <<>>
    /\ sst' = "live"
    /\ lastFinish' = ""
    /\ adapterCalls' = adapterCalls + 1
    /\ executed' = <<>>
    /\ dispatched' = 0
    /\ roundMsgs' = 0
    /\ UNCHANGED <<maxIterations, iteration, messages, callPos, nevents, toolTurns,
                   toolRounds, cancelled, inflight, started, cancelMark>>

\* Streaming: one event is forwarded and accumulated; a terminal event ends
\* the turn.
OrchestratorOnEvent ==
    /\ pc = "Streaming" /\ ~cancelled /\ nevents < MaxLoopEvents
    /\ \E ev \in OrchestratorEvents(content) :
        LET recs == IF ev.type = "tool_call" THEN AccumulatorMerge(toolCallsMap, ev)
                                             ELSE toolCallsMap
            text == IF ev.type = "content" THEN ev.content ELSE content
            calls == IF ev.type = "done" /\ ev.finishReason = "tool_calls"
                        THEN SortByIndex(recs) ELSE <<>>
        IN /\ toolCallsMap' = recs
           /\ content' = text
           /\ toolCalls' = calls
           /\ lastFinish' = IF ev.type = "done" THEN ev.finishReason ELSE lastFinish
           /\ sst' = CASE ev.type = "done" -> "terminal"
                       [] ev.type = "error" -> "errored"
                       [] OTHER -> sst
           /\ pc' = CASE ev.type = "error" -> "Failed"
                      [] ev.type = "done" /\ Len(calls) > 0 -> "ExecutingTools"
                      [] ev.type = "done" -> "Complete"
                      [] OTHER -> pc
           /\ messages' = IF ev.type = "done"
                             THEN Append(messages, Message("assistant", text, calls, NoId))
                             ELSE messages
           /\ callPos' = IF ev.type = "done" /\ Len(calls) > 0 THEN 1 ELSE callPos
           /\ toolTurns' = IF ev.type = "done" /\ Len(calls) > 0 THEN toolTurns + 1
                                                                 ELSE toolTurns
    /\ nevents' = nevents + 1
    /\ UNCHANGED <<maxIterations, iteration, adapterCalls, toolRounds, executed, cvars>>

\* ExecutingTools: the next call names no registered tool; a not-found tool
\* message is appended for its call id.
OrchestratorToolNotFound ==
    /\ pc = "ExecutingTools" /\ ~cancelled /\ ~inflight /\ callPos <= Len(toolCalls)
    /\ toolCalls[callPos].name \notin RegisteredTools
    /\ messages' = Append(messages, Message("tool", <<"not found">>, <<>>, toolCalls[callPos].id))
    /\ callPos' = callPos + 1
    /\ dispatched' = dispatched + 1
    /\ roundMsgs' = roundMsgs + 1
    /\ UNCHANGED <<pc, maxIterations, iteration, content, toolCallsMap, toolCalls, nevents,
                   sst, lastFinish, adapterCalls, toolTurns, toolRounds, executed,
                   cancelled, inflight, started, cancelMark>>

\* ExecutingTools: the next call's arguments do not parse; an error tool
\* message is appended for its call id.
OrchestratorArgumentsUnparseable ==
    /\ pc = "ExecutingTools" /\ ~cancelled /\ ~inflight /\ callPos <= Len(toolCalls)
    /\ toolCalls[callPos].name \in RegisteredTools
    /\ ~CanParse(toolCalls[callPos].arguments)
    /\ messages' = Append(messages, Message("tool", <<"parse error">>, <<>>, toolCalls[callPos].id))
    /\ callPos' = callPos + 1
    /\ dispatched' = dispatched + 1
    /\ roundMsgs' = roundMsgs + 1
    /\ UNCHANGED <<pc, maxIterations, iteration, content, toolCallsMap, toolCalls, nevents,
                   sst, lastFinish, adapterCalls, toolTurns, toolRounds, executed,
                   cancelled, inflight, started, cancelMark>>

\* The same step without the cancellation check.
OrchestratorDispatchToolUnchecked ==
    /\ pc = "ExecutingTools" /\ ~inflight /\ callPos <= Len(toolCalls)
    /\ toolCalls[callPos].name \in RegisteredTools
    /\ CanParse(toolCalls[callPos].arguments)
    /\ inflight' = TRUE
    /\ started' = started + 1
    /\ dispatched' = dispatched + 1
    /\ UNCHANGED <<lvars, cancelled, roundMsgs, cancelMark>>

\* ExecutingTools: the next call's executor is invoked.
OrchestratorDispatchTool ==
    /\ pc = "ExecutingTools" /\ ~cancelled /\ ~inflight /\ callPos <= Len(toolCalls)
    /\ toolCalls[callPos].name \in RegisteredTools
    /\ CanParse(toolCalls[callPos].arguments)
    /\ inflight' = TRUE
    /\ started' = started + 1
    /\ dispatched' = dispatched + 1
    /\ UNCHANGED <<lvars, cancelled, roundMsgs, cancelMark>>

\* The same step with the result appended whether cancelled or not.
OrchestratorToolReturnsAlways ==
    /\ pc = "ExecutingTools" /\ inflight
    /\ inflight' = FALSE
    /\ \E result \in {<<"result">>, <<"failure">>} :
        /\ messages' = Append(messages,
                              Message("tool", result, <<>>, toolCalls[callPos].id))
        /\ callPos' = callPos + 1
        /\ executed' = Append(executed, toolCalls[callPos])
        /\ roundMsgs' = roundMsgs + 1
    /\ UNCHANGED <<pc, maxIterations, iteration, content, toolCallsMap, toolCalls, nevents,
                   sst, lastFinish, adapterCalls, toolTurns, toolRounds,
                   cancelled, started, dispatched, cancelMark>>

\* The executor in flight returns (a value or a failure): its tool message
\* is appended only if the invocation is not cancelled.
OrchestratorToolReturns ==
    /\ pc = "ExecutingTools" /\ inflight
    /\ inflight' = FALSE
    /\ \E result \in {<<"result">>, <<"failure">>} :
        IF cancelled
           THEN UNCHANGED <<messages, callPos, executed, roundMsgs>>
           ELSE /\ messages' = Append(messages,
                                      Message("tool", result, <<>>, toolCalls[callPos].id))
                /\ callPos' = callPos + 1
                /\ executed' = Append(executed, toolCalls[callPos])
                /\ roundMsgs' = roundMsgs + 1
    /\ UNCHANGED <<pc, maxIterations, iteration, content, toolCallsMap, toolCalls, nevents,
                   sst, lastFinish, adapterCalls, toolTurns, toolRounds,
                   cancelled, started, dispatched, cancelMark>>

\* Every call of the turn is answered: iteration is incremented and the loop
\* is Complete at the bound, or else goes back to Start.
OrchestratorRoundDone ==
    /\ pc = "ExecutingTools" /\ ~cancelled /\ ~inflight /\ callPos > Len(toolCalls)
    /\ iteration' = iteration + 1
    /\ toolRounds' = toolRounds + 1
    /\ pc' = IF iteration + 1 >= maxIterations THEN "Complete" ELSE "Start"
    /\ UNCHANGED <<maxIterations, messages, content, toolCallsMap, toolCalls, callPos,
                   nevents, sst, lastFinish, adapterCalls, toolTurns, executed, cvars>>

\* A suspension point finds cancelled set: the loop ends Cancelled.
OrchestratorCancelObserved ==
    /\ pc \in {"Start", "Streaming", "ExecutingTools"} /\ cancelled /\ ~inflight
    /\ pc' = "Cancelled"
    /\ UNCHANGED <<maxIterations, iteration, messages, content, toolCallsMap, toolCalls,
                   callPos, nevents, sst, lastFinish, adapterCalls, toolTurns, toolRounds,
                   executed, cvars>>

\* The external cancel signal arrives while the loop runs.
CancelSignalled ==
    /\ pc \in {"Start", "Streaming", "ExecutingTools"} /\ ~cancelled
    /\ cancelled' = TRUE
    /\ cancelMark' = <<adapterCalls, started, dispatched>>
    /\ UNCHANGED <<lvars, inflight, started, dispatched, roundMsgs>>

OrchestratorInit ==
    /\ AdapterIdle
    /\ BridgeIdle
    /\ pc = "Start"
    /\ maxIterations \in 1..MaxIterationsBound
    /\ iteration = 0
    /\ messages = <<UserMessage>>
    /\ content = <<>>
    /\ toolCallsMap = <<>>
    /\ toolCalls = <<>>
    /\ callPos = 0
    /\ nevents = 0
    /\ sst = "live"
    /\ lastFinish = ""
    /\ adapterCalls = 0
    /\ toolTurns = 0
    /\ toolRounds = 0
    /\ executed = <<>>
    /\ CancelIdle
    /\ AccumulatorIdle
    /\ RequestIdle
    /\ GroupChatIdle
    /\ SessionIdle

OrchestratorNext ==
    \/ OrchestratorStart /\ UNCHANGED <<avars, bvars, mvars, rvars, gvars, svars>>
    \/ OrchestratorOnEvent /\ UNCHANGED <<avars, bvars, mvars, rvars, gvars, svars>>
    \/ OrchestratorToolNotFound /\ UNCHANGED <<avars, bvars, mvars, rvars, gvars, svars>>
    \/ OrchestratorArgumentsUnparseable /\ UNCHANGED <<avars, bvars, mvars, rvars, gvars, svars>>
    \/ OrchestratorDispatchTool /\ UNCHANGED <<avars, bvars, mvars, rvars, gvars, svars>>
    \/ OrchestratorToolReturns /\ UNCHANGED <<avars, bvars, mvars, rvars, gvars, svars>>
    \/ OrchestratorRoundDone /\ UNCHANGED <<avars, bvars, mvars, rvars, gvars, svars>>
    \/ OrchestratorCancelObserved /\ UNCHANGED <<avars, bvars, mvars, rvars, gvars, svars>>
    \/ CancelSignalled /\ UNCHANGED <<avars, bvars, mvars, rvars, gvars, svars>>

SpecOrchestrator == OrchestratorInit /\ [][OrchestratorNext]_vars

(***************************************************************************)
(* The tool-call accumulation of the Gemini adapter taken alone: the body  *)
(* of `if (functionCall)` in the parts loop, applied to the fragments of   *)
(* one call that the vendor sends under one id.                            *)
(***************************************************************************)
\* The fragments of the call: with or without a name, with object-shaped,
\* string-shaped or absent arguments.
AccumulatorFragments ==
    { FunctionCall(VendorId("c1"), "calc", a) :
         a \in { AbsentArgs, ObjectArgs(<<"a1">>), ObjectArgs(<<"a2">>), ObjectArgs(<<"b2">>),
                 ObjectArgs(<<"a1", "b2">>), StringArgs(<<"{", "a1">>), StringArgs(<<"}">>),
                 StringArgs(<<"{", "a1", "}">>), StringArgs(<<"{", "b2", "}">>) } }
    \cup { FunctionCall(VendorId("c1"), "", ObjectArgs(<<"a1">>)),
           FunctionCall(VendorId("c1"), "", StringArgs(<<"{">>)),
           FunctionCall(VendorId("c1"), "other", ObjectArgs(<<"b2">>)) }

\* One fragment of the call arrives in a part of a raw chunk.
AccumulateFragment ==
    /\ Len(fragments) < MaxFragments
    /\ \E fc \in AccumulatorFragments :
        /\ fragments' = Append(fragments, fc)
        /\ accum' = GeminiFunctionCallOfPart(accum, FunctionCallPart(fc), 0, 0)

AccumulatorInit ==
    /\ AdapterIdle
    /\ LoopIdle
    /\ BridgeIdle
    /\ CancelIdle
    /\ AccumulatorIdle
    /\ RequestIdle
    /\ GroupChatIdle
    /\ SessionIdle

AccumulatorNext ==
    \/ AccumulateFragment /\ UNCHANGED <<avars, lvars, bvars, cvars, rvars, gvars, svars>>

SpecAccumulator == AccumulatorInit /\ [][AccumulatorNext]_vars

(***************************************************************************)
(* The Gemini adapter's request conversion: chatStream calls               *)
(* mapCommonOptionsToGemini, which calls formatMessages, before its try    *)
(* block; convertContentPartToGemini throws on a part type it does not     *)
(* know.                                                                   *)
(***************************************************************************)
\* A ContentPart: its type and, for media, its source.
ContentPart(type, sourceType, value) == [type |-> type, sourceType |-> sourceType, value |-> value]

ContentParts ==
    { ContentPart("text", "", "hello"),
      ContentPart("image", "data", "bytes"),
      ContentPart("document", "url", "uri"),
      ContentPart("audio", "data", "bytes"),
      ContentPart("sticker", "data", "bytes") }

\* A ModelMessage: content is a string (isArray FALSE, text) or an array of
\* parts; callNames are the function names of msg.toolCalls.
ModelMessage(role, isArray, text, parts, callNames, toolCallId) ==
    [role |-> role, isArray |-> isArray, text |-> text, parts |-> parts,
     callNames |-> callNames, toolCallId |-> toolCallId]

RequestMessages ==
    { ModelMessage("user", FALSE, "q", <<>>, <<>>, ""),
      ModelMessage("assistant", FALSE, "", <<>>, <<"calc">>, ""),
      ModelMessage("tool", FALSE, "r", <<>>, <<>>, "c1") }
    \cup { ModelMessage("user", TRUE, "", ps, <<>>, "") :
              ps \in UNION { [1..n -> ContentParts] : n \in 1..MaxParts } }

\* options.messages: one or two messages.
Requests == { <<m>> : m \in RequestMessages }
            \cup { <<m1, m2>> : m1 \in RequestMessages, m2 \in RequestMessages }

\* A vendor Part.
GeminiPart(kind, value, mimeType) == [kind |-> kind, value |-> value, mimeType |-> mimeType]

\* getDefaultFileType
GetDefaultFileType(type) ==
    CASE type = "image" -> "image/jpeg"
      [] type = "audio" -> "audio/mp3"
      [] type = "video" -> "video/mp4"
      [] OTHER -> "application/pdf"

\* convertContentPartToGemini: the vendor part, or the throw of the default
\* branch with the part type in its message.
ConvertContentPartToGemini(part) ==
    CASE part.type = "text" ->
            [ok |-> TRUE, part |-> GeminiPart("text", part.value, ""), error |-> ""]
      [] part.type \in {"image", "audio", "video", "document"} ->
            [ok |-> TRUE,
             part |-> GeminiPart(IF part.sourceType = "data" THEN "inlineData" ELSE "fileData",
                                 part.value, GetDefaultFileType(part.type)),
             error |-> ""]
      [] OTHER ->
            [ok |-> FALSE, part |-> GeminiPart("", "", ""), error |-> part.type]

RECURSIVE ConvertPartsDropping(_)
\* The same loop skipping the parts it cannot convert.
ConvertPartsDropping(ps) ==
    IF ps = <<>> THEN [ok |-> TRUE, parts |-> <<>>, error |-> ""]
    ELSE LET first == ConvertContentPartToGemini(Head(ps))
             rest == ConvertPartsDropping(Tail(ps))
         IN [ok |-> TRUE,
             parts |-> (IF first.ok THEN <<first.part>> ELSE <<>>) \o rest.parts,
             error |-> ""]

RECURSIVE ConvertParts(_)
\* for (const contentPart of msg.content) parts.push(convert(contentPart))
ConvertParts(ps) ==
    IF ps = <<>> THEN [ok |-> TRUE, parts |-> <<>>, error |-> ""]
    ELSE LET first == ConvertContentPartToGemini(Head(ps))
         IN IF ~first.ok THEN [ok |-> FALSE, parts |-> <<>>, error |-> first.error]
            ELSE LET rest == ConvertParts(Tail(ps))
                 IN IF ~rest.ok THEN rest
                    ELSE [ok |-> TRUE, parts |-> <<first.part>> \o rest.parts, error |-> ""]

\* The callback of messages.map in formatMessages.
FormatMessage(msg) ==
    LET converted == IF msg.isArray THEN ConvertParts(msg.parts)
                     ELSE [ok |-> TRUE,
                           parts |-> IF msg.text # "" THEN <<GeminiPart("text", msg.text, "")>>
                                                      ELSE <<>>,
                           error |-> ""]
        calls == IF msg.role = "assistant"
                    THEN [i \in 1..Len(msg.callNames) |->
                             GeminiPart("functionCall", msg.callNames[i], "")]
                    ELSE <<>>
        response == IF msg.role = "tool" /\ msg.toolCallId # ""
                       THEN <<GeminiPart("functionResponse", msg.toolCallId, "")>>
                       ELSE <<>>
        parts == converted.parts \o calls \o response
    IN [ok |-> converted.ok,
        role |-> IF msg.role = "assistant" THEN "model" ELSE "user",
        parts |-> IF Len(parts) > 0 THEN parts ELSE <<GeminiPart("text", "", "")>>,
        error |-> converted.error]

\* formatMessages: the contents, or the first throw in message order.
FormatMessages(msgs) ==
    LET formatted == [i \in 1..Len(msgs) |-> FormatMessage(msgs[i])]
        failed == {i \in 1..Len(msgs) : ~formatted[i].ok}
    IN IF failed = {}
          THEN [ok |-> TRUE, contents |-> formatted, error |-> ""]
          ELSE [ok |-> FALSE, contents |-> <<>>,
                error |-> formatted[CHOOSE i \in failed : \A j \in failed : i <= j].error]

\* mapCommonOptionsToGemini returns: the request is ready to be sent.
GeminiMapOptions ==
    /\ rpc = "start" /\ FormatMessages(request).ok
    /\ contents' = FormatMessages(request).contents
    /\ rpc' = "mapped"
    /\ UNCHANGED <<request, thrown>>

\* mapCommonOptionsToGemini throws: it runs before the try block, so the
\* error leaves chatStream on the consumer's first next().
GeminiMapOptionsThrows ==
    /\ rpc = "start" /\ ~FormatMessages(request).ok
    /\ thrown' = FormatMessages(request).error
    /\ rpc' = "thrown"
    /\ UNCHANGED <<request, contents>>

\* this.client.models.generateContentStream(mappedOptions) is called.
GeminiCallVendor ==
    /\ rpc = "mapped"
    /\ rpc' = "called"
    /\ UNCHANGED <<request, contents, thrown>>

\* The first canonical event is yielded: an event of the vendor stream, or
\* the error event of the catch block.
GeminiFirstEvent ==
    /\ rpc = "called"
    /\ rpc' \in {"streaming", "errored"}
    /\ UNCHANGED <<request, contents, thrown>>

RequestInit ==
    /\ AdapterIdle
    /\ LoopIdle
    /\ BridgeIdle
    /\ CancelIdle
    /\ AccumulatorIdle
    /\ GroupChatIdle
    /\ SessionIdle
    /\ request \in Requests
    /\ rpc = "start"
    /\ contents = <<>>
    /\ thrown = ""

RequestNext ==
    \/ GeminiMapOptions /\ UNCHANGED <<avars, lvars, bvars, cvars, mvars, gvars, svars>>
    \/ GeminiMapOptionsThrows /\ UNCHANGED <<avars, lvars, bvars, cvars, mvars, gvars, svars>>
    \/ GeminiCallVendor /\ UNCHANGED <<avars, lvars, bvars, cvars, mvars, gvars, svars>>
    \/ GeminiFirstEvent /\ UNCHANGED <<avars, lvars, bvars, cvars, mvars, gvars, svars>>

SpecRequest == RequestInit /\ [][RequestNext]_vars

(***************************************************************************)
(* The group chat server (examples/ts-group-chat/chat-server/capnweb-rpc.ts) *)
(***************************************************************************)

\* The usernames, and the ChatServer instances (one per connection).
Users == {"alice", "bob", "carol"}

Servers == {1, 2}

\* The usernames the client of a server joins with: the two clients may pick
\* the same name.
JoinNames(s) == IF s = 1 THEN {"alice"} ELSE {"alice", "bob"}

\* sendMessage calls of one run.
MaxSends == 2

\* Direct calls of broadcastToAll of one run.
MaxBroadcasts == 1

\* The queue length broadcastToAll keeps (the code keeps 50; scaled down so that
\* the truncation happens within the bounds).
QueueCap == 3

\* Ids are numbers here: 0 for no id, the random id
\* Math.random().toString(36).substr(2, 9) is the one id below zero, and the
\* k-th message of the chat has id k.
NoChatId == 0

RandomId == 0 - 1

\* A notification object: its type, its username and its id (NoChatId when the
\* object carries none).  The message text is a function of type and username.
Notification(type, user, id) == [type |-> type, username |-> user, id |-> id]

NoNotification == Notification("", "", NoChatId)

\* The id ChatLogic gives to the k-th message of the chat.
MessageId(k) == k

\* A message of globalChat.
ChatMessage(user, text, id) == [username |-> user, message |-> text, id |-> id]

\* The notification onMessageSent broadcasts for a chat message.
MessageNotification(msg) == Notification("message", msg.username, msg.id)

\* The entry broadcastToAll pushes: the notification with its id, or a random one.
QueueEntry(n) == [n EXCEPT !.id = IF n.id # NoChatId THEN n.id ELSE RandomId]

\* queue.splice(0, queue.length - cap) when the queue is longer than the cap.
Truncate(q) ==
    IF Len(q) > QueueCap THEN SubSeq(q, Len(q) - QueueCap + 1, Len(q)) ELSE q

\* The users broadcastToAll skips nobody but excludeUser of ("" for undefined).
Recipients(cl, excludeUser) == { u \in cl : ~(excludeUser # "" /\ u = excludeUser) }

\* A broadcast that forgets the exclusion.
BroadcastToAllIgnoringExclude(qs, cl, n, excludeUser) ==
    [u \in Users |->
        IF u \in cl THEN Truncate(Append(qs[u], QueueEntry(n))) ELSE qs[u]]

\* broadcastToAll: the queues after the loop over clients.keys().
BroadcastToAll(qs, cl, n, excludeUser) ==
    [u \in Users |->
        IF u \in Recipients(cl, excludeUser)
        THEN Truncate(Append(qs[u], QueueEntry(n)))
        ELSE qs[u]]

\* The queue keys after a broadcast: a missing queue is created.
BroadcastKeys(keys, cl, excludeUser) == keys \cup Recipients(cl, excludeUser)

\* ---- the Claude service, as capnweb-rpc.ts uses it ----
NoRequest == [username |-> "", history |-> 0]

\* A queued request: who asked, and the conversation history it was enqueued with
\* (the history is a prefix of globalChat's messages, held as its length).
ClaudeRequest(user, history) == [username |-> user, history |-> history]

ClaudeEnqueue(svc, req) == [svc EXCEPT !.queue = Append(svc.queue, req)]

ClaudeStartProcessing(svc) ==
    [queue |-> Tail(svc.queue), isProcessing |-> TRUE, current |-> Head(svc.queue)]

ClaudeFinishProcessing(svc) ==
    [svc EXCEPT !.isProcessing = FALSE, !.current = NoRequest]

\* ---- the RPC calls in flight ----
NoCall == [op |-> "", user |-> "", history |-> 0]

\* A processClaudeQueue invocation: where it is suspended, and the history it
\* streams with.
Invocation(pc0) == [pc |-> pc0, history |-> 0]

Processing == {"announced", "streaming", "sent", "caught"}

\* The invocations without the i-th, which has returned.
Returned(seq, i) == SubSeq(seq, 1, i - 1) \o SubSeq(seq, i + 1, Len(seq))

\* joinChat up to the await of globalChat.addUser, whose onUserJoined callback
\* broadcasts user_joined.
JoinChat(s, u) ==
    /\ pending[s] = NoCall
    /\ joined[s] = ""
    /\ joined' = [joined EXCEPT ![s] = u]
    /\ clients' = clients \cup {u}
    /\ queues' = BroadcastToAll(queues, clients', Notification("user_joined", u, NoChatId), "")
    /\ queueKeys' = BroadcastKeys(queueKeys, clients', "")
    /\ pending' = [pending EXCEPT ![s] = [op |-> "join", user |-> u, history |-> 0]]
    /\ UNCHANGED <<claude, invs, chatMessages, bcast, nsends>>

\* joinChat after the await: the welcome message is pushed.
JoinChatWelcome(s) ==
    /\ pending[s].op = "join"
    /\ LET u == pending[s].user IN
        /\ queueKeys' = queueKeys \cup {u}
        /\ queues' = [queues EXCEPT ![u] = Append(@, Notification("welcome", "", RandomId))]
    /\ pending' = [pending EXCEPT ![s] = NoCall]
    /\ UNCHANGED <<claude, invs, joined, clients, chatMessages, bcast, nsends>>

\* sendMessage up to the await of globalChat.sendMessage, whose onMessageSent
\* callback broadcasts the message.  A regular message ends the call there.
SendMessage(s, mention) ==
    /\ joined[s] # ""
    /\ pending[s] = NoCall
    /\ nsends < MaxSends
    /\ nsends' = nsends + 1
    /\ LET msg == ChatMessage(joined[s], IF mention THEN "@Claude" ELSE "hello",
                              MessageId(Len(chatMessages) + 1)) IN
        /\ chatMessages' = Append(chatMessages, msg)
        /\ queues' = BroadcastToAll(queues, clients, MessageNotification(msg), "")
    /\ queueKeys' = BroadcastKeys(queueKeys, clients, "")
    /\ pending' = [pending EXCEPT ![s] =
                      IF mention THEN [op |-> "send", user |-> joined[s], history |-> 0]
                      ELSE NoCall]
    /\ UNCHANGED <<claude, invs, joined, clients, bcast>>

\* sendMessage after the await: the history is built, getClaudeService awaited.
SendMessageHistory(s) ==
    /\ pending[s].op = "send"
    /\ pending' = [pending EXCEPT ![s] =
                      [op |-> "enqueue", user |-> joined[s], history |-> Len(chatMessages)]]
    /\ UNCHANGED <<claude, invs, joined, clients, queueKeys, queues, chatMessages, bcast,
                   nsends>>

\* sendMessage after getClaudeService: the request is enqueued and
\* processClaudeQueue called, which runs up to its own await of getClaudeService.
SendMessageEnqueue(s) ==
    /\ pending[s].op = "enqueue"
    /\ claude' = ClaudeEnqueue(claude, ClaudeRequest(joined[s], pending[s].history))
    /\ invs' = Append(invs, Invocation("entered"))
    /\ pending' = [pending EXCEPT ![s] = NoCall]
    /\ UNCHANGED <<joined, clients, queueKeys, queues, chatMessages, bcast, nsends>>

\* processClaudeQueue with the check of isProcessing left out.
ProcessQueueCheckUnguarded(i) ==
    /\ invs[i].pc = "entered"
    /\ IF claude.queue = <<>>
       THEN /\ invs' = Returned(invs, i)
            /\ UNCHANGED <<claude, queueKeys, queues>>
       ELSE /\ claude' = ClaudeStartProcessing(claude)
            /\ invs' = [invs EXCEPT ![i].pc = "announced"]
            /\ queues' = BroadcastToAll(queues, clients, Notification("claude_responding", "System", NoChatId), "")
            /\ queueKeys' = BroadcastKeys(queueKeys, clients, "")
    /\ UNCHANGED <<joined, clients, chatMessages, pending, bcast, nsends>>

\* processClaudeQueue from getQueueStatus to the await of the claude_responding
\* broadcast: it returns when the service is processing or the queue is empty,
\* and calls startProcessing otherwise.
ProcessQueueCheck(i) ==
    /\ invs[i].pc = "entered"
    /\ IF claude.isProcessing \/ claude.queue = <<>>
       THEN /\ invs' = Returned(invs, i)
            /\ UNCHANGED <<claude, queueKeys, queues>>
       ELSE /\ claude' = ClaudeStartProcessing(claude)
            /\ invs' = [invs EXCEPT ![i].pc = "announced"]
            /\ queues' = BroadcastToAll(queues, clients, Notification("claude_responding", "System", NoChatId), "")
            /\ queueKeys' = BroadcastKeys(queueKeys, clients, "")
    /\ UNCHANGED <<joined, clients, chatMessages, pending, bcast, nsends>>

\* After the broadcast: the history is rebuilt from globalChat's messages and
\* streamResponse called.
ProcessQueueStream(i) ==
    /\ invs[i].pc = "announced"
    /\ invs' = [invs EXCEPT ![i].pc = "streaming", ![i].history = Len(chatMessages)]
    /\ UNCHANGED <<claude, joined, clients, queueKeys, queues, chatMessages, pending,
                   bcast, nsends>>

\* The texts a response accumulates to: no content chunk, or some.
Responses == {"", "reply"}

\* The response ends with its chunks accumulated: Claude's message is sent to
\* the chat and broadcast.
ProcessQueueStreamEnds(i, text) ==
    /\ invs[i].pc = "streaming"
    /\ invs' = [invs EXCEPT ![i].pc = "sent"]
    /\ LET msg == ChatMessage("Claude", text,
                              MessageId(Len(chatMessages) + 1)) IN
        /\ chatMessages' = Append(chatMessages, msg)
        /\ queues' = BroadcastToAll(queues, clients, MessageNotification(msg), "")
    /\ queueKeys' = BroadcastKeys(queueKeys, clients, "")
    /\ UNCHANGED <<claude, joined, clients, pending, bcast, nsends>>

\* The response stream throws: the catch block broadcasts claude_error.
ProcessQueueStreamThrows(i) ==
    /\ invs[i].pc = "streaming"
    /\ invs' = [invs EXCEPT ![i].pc = "caught"]
    /\ queues' = BroadcastToAll(queues, clients, Notification("claude_error", "System", NoChatId), "")
    /\ queueKeys' = BroadcastKeys(queueKeys, clients, "")
    /\ UNCHANGED <<claude, joined, clients, chatMessages, pending, bcast, nsends>>

\* A finally block that does not call processClaudeQueue again.
ProcessQueueFinallyWithoutRestart(i) ==
    /\ invs[i].pc \in {"sent", "caught"}
    /\ claude' = ClaudeFinishProcessing(claude)
    /\ invs' = Returned(invs, i)
    /\ UNCHANGED <<joined, clients, queueKeys, queues, chatMessages, pending, bcast, nsends>>

\* The finally block: finishProcessing, then processClaudeQueue is called again.
ProcessQueueFinally(i) ==
    /\ invs[i].pc \in {"sent", "caught"}
    /\ claude' = ClaudeFinishProcessing(claude)
    /\ invs' = Append(Returned(invs, i), Invocation("entered"))
    /\ UNCHANGED <<joined, clients, queueKeys, queues, chatMessages, pending, bcast, nsends>>

\* The notifications broadcastToAll is called with directly.
DirectNotifications ==
    { Notification("user_left", "bob", NoChatId),
      Notification("message", "alice", MessageId(QueueCap + 2)) }

\* ChatServer.broadcastToAll(notification, excludeUser), called on its own.
BroadcastToAllCalled(n, excludeUser) ==
    /\ bcast.count < MaxBroadcasts
    /\ bcast' = [count |-> bcast.count + 1, notification |-> n, exclude |-> excludeUser]
    /\ queues' = BroadcastToAll(queues, clients, n, excludeUser)
    /\ queueKeys' = BroadcastKeys(queueKeys, clients, excludeUser)
    /\ UNCHANGED <<claude, invs, joined, clients, chatMessages, pending, nsends>>

\* The ChatServer instances are constructed and their sockets open.
SessionStart ==
    /\ activeServers = Servers
    /\ closed = [s \in Servers |-> FALSE]
    /\ leaving = [s \in Servers |-> FALSE]
    /\ joinedAs = [s \in Servers |-> {}]
    /\ polls = [count |-> 0, server |-> 0, returned |-> <<>>]
    /\ njoins = 0

ChatInit ==
    /\ AdapterIdle
    /\ LoopIdle
    /\ BridgeIdle
    /\ CancelIdle
    /\ AccumulatorIdle
    /\ RequestIdle
    /\ claude = [queue |-> <<>>, isProcessing |-> FALSE, current |-> NoRequest]
    /\ invs = <<>>
    /\ joined = [s \in Servers |-> ""]
    /\ clients = {}
    /\ queueKeys = {}
    /\ queues = [u \in Users |-> <<>>]
    /\ chatMessages = <<>>
    /\ pending = [s \in Servers |-> NoCall]
    /\ bcast = [count |-> 0, notification |-> NoNotification, exclude |-> ""]
    /\ nsends = 0
    /\ SessionStart

ChatNext ==
    \/ \E s \in Servers : \E u \in JoinNames(s) : JoinChat(s, u) /\ UNCHANGED <<avars, lvars, bvars, cvars, mvars, rvars, svars>>
    \/ \E s \in Servers : JoinChatWelcome(s) /\ UNCHANGED <<avars, lvars, bvars, cvars, mvars, rvars, svars>>
    \/ \E s \in Servers, mention \in BOOLEAN : SendMessage(s, mention) /\ UNCHANGED <<avars, lvars, bvars, cvars, mvars, rvars, svars>>
    \/ \E s \in Servers : SendMessageHistory(s) /\ UNCHANGED <<avars, lvars, bvars, cvars, mvars, rvars, svars>>
    \/ \E s \in Servers : SendMessageEnqueue(s) /\ UNCHANGED <<avars, lvars, bvars, cvars, mvars, rvars, svars>>
    \/ \E i \in DOMAIN invs : ProcessQueueCheck(i) /\ UNCHANGED <<avars, lvars, bvars, cvars, mvars, rvars, svars>>
    \/ \E i \in DOMAIN invs : ProcessQueueStream(i) /\ UNCHANGED <<avars, lvars, bvars, cvars, mvars, rvars, svars>>
    \/ \E i \in DOMAIN invs, text \in Responses : ProcessQueueStreamEnds(i, text) /\ UNCHANGED <<avars, lvars, bvars, cvars, mvars, rvars, svars>>
    \/ \E i \in DOMAIN invs : ProcessQueueStreamThrows(i) /\ UNCHANGED <<avars, lvars, bvars, cvars, mvars, rvars, svars>>
    \/ \E i \in DOMAIN invs : ProcessQueueFinally(i) /\ UNCHANGED <<avars, lvars, bvars, cvars, mvars, rvars, svars>>

SpecChat == ChatInit /\ [][ChatNext]_vars

\* ---- the chat server with the event loop running every continuation ----
\* A suspended processClaudeQueue invocation is resumed.
ProcessQueueResumes ==
    /\ \E i \in DOMAIN invs :
          ProcessQueueCheck(i) \/ ProcessQueueStream(i) \/ ProcessQueueFinally(i)
    /\ UNCHANGED <<avars, lvars, bvars, cvars, mvars, rvars, svars>>

\* A streamResponse call terminates, normally or by throwing.
StreamResponseTerminates ==
    /\ \E i \in DOMAIN invs :
          (\E text \in Responses : ProcessQueueStreamEnds(i, text)) \/ ProcessQueueStreamThrows(i)
    /\ UNCHANGED <<avars, lvars, bvars, cvars, mvars, rvars, svars>>

\* Both connections have joined, alice and bob, and have polled their queues
\* empty.
ChatJoinedInit ==
    /\ AdapterIdle
    /\ LoopIdle
    /\ BridgeIdle
    /\ CancelIdle
    /\ AccumulatorIdle
    /\ RequestIdle
    /\ claude = [queue |-> <<>>, isProcessing |-> FALSE, current |-> NoRequest]
    /\ invs = <<>>
    /\ joined = [s \in Servers |-> IF s = 1 THEN "alice" ELSE "bob"]
    /\ clients = {"alice", "bob"}
    /\ queueKeys = {"alice", "bob"}
    /\ queues = [u \in Users |-> <<>>]
    /\ chatMessages = <<>>
    /\ pending = [s \in Servers |-> NoCall]
    /\ bcast = [count |-> 0, notification |-> NoNotification, exclude |-> ""]
    /\ nsends = 0
    /\ SessionStart

\* sendMessage and processClaudeQueue of the joined connections.
ClaudeQueueNext ==
    \/ \E s \in Servers, mention \in BOOLEAN : SendMessage(s, mention) /\ UNCHANGED <<avars, lvars, bvars, cvars, mvars, rvars, svars>>
    \/ \E s \in Servers : SendMessageHistory(s) /\ UNCHANGED <<avars, lvars, bvars, cvars, mvars, rvars, svars>>
    \/ \E s \in Servers : SendMessageEnqueue(s) /\ UNCHANGED <<avars, lvars, bvars, cvars, mvars, rvars, svars>>
    \/ \E i \in DOMAIN invs : ProcessQueueCheck(i) /\ UNCHANGED <<avars, lvars, bvars, cvars, mvars, rvars, svars>>
    \/ \E i \in DOMAIN invs : ProcessQueueStream(i) /\ UNCHANGED <<avars, lvars, bvars, cvars, mvars, rvars, svars>>
    \/ \E i \in DOMAIN invs, text \in Responses : ProcessQueueStreamEnds(i, text) /\ UNCHANGED <<avars, lvars, bvars, cvars, mvars, rvars, svars>>
    \/ \E i \in DOMAIN invs : ProcessQueueStreamThrows(i) /\ UNCHANGED <<avars, lvars, bvars, cvars, mvars, rvars, svars>>
    \/ \E i \in DOMAIN invs : ProcessQueueFinally(i) /\ UNCHANGED <<avars, lvars, bvars, cvars, mvars, rvars, svars>>

SpecChatFair ==
    /\ ChatJoinedInit /\ [][ClaudeQueueNext]_vars
    /\ WF_vars(ProcessQueueResumes)
    /\ WF_vars(StreamResponseTerminates)

\* ---- the connections: joinChat, leaveChat, close; pollMessages ----
\* joinChat calls of one run.
MaxJoins == 2

\* pollMessages calls of one run.
MaxPolls == 2

\* joinChat on an open connection, up to its await.
SessionJoinChat(s, u) ==
    /\ ~closed[s]
    /\ njoins < MaxJoins
    /\ njoins' = njoins + 1
    /\ JoinChat(s, u)
    /\ joinedAs' = [joinedAs EXCEPT ![s] = @ \cup {u}]
    /\ UNCHANGED <<activeServers, closed, leaving, polls>>

\* leaveChat up to the await of globalChat.removeUser, whose onUserLeft
\* callback broadcasts user_left.
LeaveChat(s) ==
    /\ ~closed[s]
    /\ joined[s] # ""
    /\ ~leaving[s]
    /\ leaving' = [leaving EXCEPT ![s] = TRUE]
    /\ queues' = BroadcastToAll(queues, clients, Notification("user_left", joined[s], NoChatId), "")
    /\ queueKeys' = BroadcastKeys(queueKeys, clients, "")
    /\ UNCHANGED <<claude, invs, joined, clients, chatMessages, pending, bcast, nsends>>
    /\ UNCHANGED <<activeServers, closed, joinedAs, polls, njoins>>

\* leaveChat after the await: currentUsername = null.
LeaveChatReturns(s) ==
    /\ leaving[s]
    /\ leaving' = [leaving EXCEPT ![s] = FALSE]
    /\ joined' = [joined EXCEPT ![s] = ""]
    /\ UNCHANGED <<claude, invs, clients, queueKeys, queues, chatMessages, pending, bcast,
                   nsends>>
    /\ UNCHANGED <<activeServers, closed, joinedAs, polls, njoins>>

\* A pollMessages that leaves the queue as it is.
PollMessagesKeeping(s) ==
    /\ ~closed[s]
    /\ polls.count < MaxPolls
    /\ IF joined[s] = ""
       THEN /\ polls' = [count |-> polls.count + 1, server |-> s, returned |-> <<>>]
            /\ UNCHANGED <<queueKeys, queues>>
       ELSE /\ polls' = [count |-> polls.count + 1, server |-> s,
                         returned |-> queues[joined[s]]]
            /\ queueKeys' = queueKeys \cup {joined[s]}
            /\ UNCHANGED queues
    /\ UNCHANGED <<claude, invs, joined, clients, chatMessages, pending, bcast, nsends>>
    /\ UNCHANGED <<activeServers, closed, leaving, joinedAs, njoins>>

\* pollMessages: [] without a username; else a copy of the user's queue is
\* returned and the queue replaced by [].
PollMessages(s) ==
    /\ ~closed[s]
    /\ polls.count < MaxPolls
    /\ IF joined[s] = ""
       THEN /\ polls' = [count |-> polls.count + 1, server |-> s, returned |-> <<>>]
            /\ UNCHANGED <<queueKeys, queues>>
       ELSE /\ polls' = [count |-> polls.count + 1, server |-> s,
                         returned |-> queues[joined[s]]]
            /\ queueKeys' = queueKeys \cup {joined[s]}
            /\ queues' = [queues EXCEPT ![joined[s]] = <<>>]
    /\ UNCHANGED <<claude, invs, joined, clients, chatMessages, pending, bcast, nsends>>
    /\ UNCHANGED <<activeServers, closed, leaving, joinedAs, njoins>>

\* The close handler of the WebSocket: leaveChat() when a username is set
\* (it runs up to its await), then dispose().
SocketCloses(s) ==
    /\ ~closed[s]
    /\ closed' = [closed EXCEPT ![s] = TRUE]
    /\ activeServers' = activeServers \ {s}
    /\ IF joined[s] # ""
       THEN LET u == joined[s]
                left == BroadcastToAll(queues, clients,
                                       Notification("user_left", u, NoChatId), "")
            IN /\ leaving' = [leaving EXCEPT ![s] = TRUE]
               /\ clients' = clients \ {u}
               /\ queueKeys' = BroadcastKeys(queueKeys, clients, "") \ {u}
               /\ queues' = [left EXCEPT ![u] = <<>>]
       ELSE UNCHANGED <<leaving, clients, queueKeys, queues>>
    /\ UNCHANGED <<claude, invs, joined, chatMessages, pending, bcast, nsends>>
    /\ UNCHANGED <<joinedAs, polls, njoins>>

SessionInit == ChatInit

SessionNext ==
    \/ \E s \in Servers : \E u \in JoinNames(s) : SessionJoinChat(s, u) /\ UNCHANGED <<avars, lvars, bvars, cvars, mvars, rvars>>
    \/ \E s \in Servers : JoinChatWelcome(s) /\ UNCHANGED <<avars, lvars, bvars, cvars, mvars, rvars, svars>>
    \/ \E s \in Servers : LeaveChat(s) /\ UNCHANGED <<avars, lvars, bvars, cvars, mvars, rvars>>
    \/ \E s \in Servers : LeaveChatReturns(s) /\ UNCHANGED <<avars, lvars, bvars, cvars, mvars, rvars>>
    \/ \E s \in Servers : SocketCloses(s) /\ UNCHANGED <<avars, lvars, bvars, cvars, mvars, rvars>>
    \/ \E n \in DirectNotifications, x \in Users \cup {""} : BroadcastToAllCalled(n, x) /\ UNCHANGED <<avars, lvars, bvars, cvars, mvars, rvars, svars>>

SpecSession == SessionInit /\ [][SessionNext]_vars

\* ---- broadcastToAll and pollMessages on their own ----
\* A queue of k earlier messages, all different.
EarlierQueue(k) == [j \in 1..k |-> Notification("message", "bob", MessageId(j))]

\* The queues a user can have: up to the cap, and one more after a welcome
\* message, which joinChat pushes without truncating.
EarlierQueues == { EarlierQueue(k) : k \in 0..(QueueCap + 1) }

BroadcastInit ==
    /\ AdapterIdle
    /\ LoopIdle
    /\ BridgeIdle
    /\ CancelIdle
    /\ AccumulatorIdle
    /\ RequestIdle
    /\ claude = [queue |-> <<>>, isProcessing |-> FALSE, current |-> NoRequest]
    /\ invs = <<>>
    /\ joined \in [Servers -> {"", "alice"}]
    /\ joined[1] = "alice"
    /\ clients \in SUBSET Users
    /\ queueKeys \in SUBSET Users
    /\ queues \in [Users -> EarlierQueues]
    /\ \A u \in Users : u \notin queueKeys => queues[u] = <<>>
    /\ chatMessages = <<>>
    /\ pending = [s \in Servers |-> NoCall]
    /\ bcast = [count |-> 0, notification |-> NoNotification, exclude |-> ""]
    /\ nsends = 0
    /\ SessionStart

BroadcastNext ==
    \/ \E s \in Servers : PollMessages(s) /\ UNCHANGED <<avars, lvars, bvars, cvars, mvars, rvars>>
    \/ \E n \in DirectNotifications, x \in Users \cup {""} : BroadcastToAllCalled(n, x) /\ UNCHANGED <<avars, lvars, bvars, cvars, mvars, rvars, svars>>

SpecBroadcast == BroadcastInit /\ [][BroadcastNext]_vars

(***************************************************************************)
(* Properties of the adapter streams.                                      *)
(***************************************************************************)
RECURSIVE ConcatDeltas(_)
\* The concatenation, in order, of the delta fields of the content events.
ConcatDeltas(evs) ==
    IF evs = <<>> THEN <<>>
    ELSE ConcatDeltas(SubSeq(evs, 1, Len(evs) - 1))
         \o (IF evs[Len(evs)].type = "content" THEN evs[Len(evs)].delta ELSE <<>>)

Terminals(evs) == {i \in 1..Len(evs) : evs[i].type \in {"done", "error"}}

\* C1: every content event carries, as its accumulated text, the
\* concatenation of the deltas of all content events emitted so far
\* including itself, and the adapter's running text is that concatenation
\* after every event: thinking and tool_call events leave it unchanged.
C1_AccumulatedIsConcatOfDeltas ==
    /\ \A i \in 1..Len(out) :
          out[i].type = "content" => out[i].content = ConcatDeltas(SubSeq(out, 1, i))
    /\ apc \in {"iter", "ended"} => accumulatedContent = ConcatDeltas(out)

\* A stream with two content events around a thinking or tool_call event.
C1_Witness ==
    \E i, j, k \in 1..Len(out) :
        /\ i < j /\ j < k
        /\ out[i].type = "content"
        /\ out[j].type \in {"thinking", "tool_call"}
        /\ out[k].type = "content"
        /\ Len(out[k].content) = 2

\* C2: a stream that ran to exhaustion holds exactly one terminal event
\* (done or error), never zero and never more than one.
C2_ExactlyOneTerminal == apc = "ended" => Cardinality(Terminals(out)) = 1

\* C3: a done or error event is the last event of the stream: nothing is
\* emitted after it.
C3_TerminalIsLast == \A i \in Terminals(out) : i = Len(out)

\* C4: after a failure of the vendor call or of the vendor stream the
\* canonical stream has ended with exactly one error event, and no
\* exception reaches the consumer.
C4_FailureIsOneErrorEvent ==
    /\ apc # "thrown"
    /\ failure =>
          /\ apc = "ended"
          /\ Cardinality({i \in 1..Len(out) : out[i].type = "error"}) = 1
          /\ out[Len(out)].type = "error"

\* The positions of the tool_call events of a stream.
ToolCallEvents(evs) == {i \in 1..Len(evs) : evs[i].type = "tool_call"}

\* C14: all tool_call events of one stream that belong to the same tool call
\* (the same index) carry the same call id.
C14_CallIdStable ==
    \A i, j \in ToolCallEvents(out) :
        out[i].index = out[j].index => out[i].toolCall.id = out[j].toolCall.id

\* C15: no two tool_call events of one stream carry the same call id with
\* different index values.
C15_IndexAssignedOnce ==
    \A i, j \in ToolCallEvents(out) :
        out[i].toolCall.id = out[j].toolCall.id => out[i].index = out[j].index

\* C19: two distinct tool calls of one stream (different index) whose ids
\* were synthesized by the adapter never carry the same synthesized id.
C19_SynthesizedIdsUnique ==
    \A i, j \in ToolCallEvents(out) :
        (/\ out[i].toolCall.id.kind \in {"call", "synth"}
         /\ out[j].toolCall.id.kind \in {"call", "synth"}
         /\ out[i].index # out[j].index)
        => out[i].toolCall.id # out[j].toolCall.id

\* C20: when the first function call of a Gemini stream arrives in the raw
\* chunk that carries the finish reason, the events of that chunk hold a
\* tool_call event, every tool_call event of the chunk precedes its done
\* event, the done event is the last event of the chunk and its finish
\* reason is tool_calls.
C20_FinishChunkCallBeforeDone ==
    [][ (/\ adapter = "gemini"
         /\ toolCallMap = <<>> /\ toolCallMap' # <<>>
         /\ Len(out') > Len(out)
         /\ \E k \in (Len(out) + 1)..Len(out') : out'[k].type = "done")
        => /\ out'[Len(out')].type = "done"
           /\ out'[Len(out')].finishReason = "tool_calls"
           /\ \E k \in (Len(out) + 1)..(Len(out') - 1) : out'[k].type = "tool_call"
           /\ \A k \in (Len(out) + 1)..(Len(out') - 1) : out'[k].type # "done" ]_vars

\* A Gemini stream whose only chunk carried a function call and the finish
\* reason: a tool_call event, then done with finish reason tool_calls.
C20_Witness ==
    /\ adapter = "gemini" /\ nchunks = 1
    /\ Len(out) = 2
    /\ out[1].type = "tool_call"
    /\ out[2].type = "done" /\ out[2].finishReason = "tool_calls"

\* The function-call parts of a raw Gemini chunk.
CallParts(chunk) ==
    IF chunk.hasParts
    THEN {k \in 1..Len(chunk.parts) : chunk.parts[k].functionCall.present}
    ELSE {}

\* C31: every function call the vendor reports yields one tool-call record.
\* A raw Gemini chunk adds no more tool_call events to the stream and no
\* more records to toolCallMap than one of the chunks has function-call
\* parts, also when the chunk carries the finish reason.
C31_OneRecordPerVendorCall ==
    [][ (adapter = "gemini" /\ nchunks' = nchunks + 1)
        => \E chunk \in GeminiChunks :
              /\ Cardinality(ToolCallEvents(out')) - Cardinality(ToolCallEvents(out))
                    <= Cardinality(CallParts(chunk))
              /\ Len(toolCallMap') - Len(toolCallMap) <= Cardinality(CallParts(chunk)) ]_vars

RECURSIVE ConcatArguments(_, _)
\* What a consumer holds for one index after appending, in arrival order, the
\* arguments of the tool_call events of that index.
ConcatArguments(evs, idx) ==
    IF evs = <<>> THEN <<>>
    ELSE (IF Head(evs).type = "tool_call" /\ Head(evs).index = idx
          THEN Head(evs).toolCall.arguments ELSE <<>>)
         \o ConcatArguments(Tail(evs), idx)

\* C32: the arguments of tool_call events are fragments.  When the done event
\* of a Gemini stream arrives, the concatenation per index of the arguments
\* of the tool_call events is the complete arguments text the adapter holds
\* for that call, nothing repeated.
C32_ArgumentsAreFragments ==
    (adapter = "gemini" /\ out # <<>> /\ out[Len(out)].type = "done")
    => \A k \in 1..Len(toolCallMap) :
          ConcatArguments(out, toolCallMap[k].index) = toolCallMap[k].args

\* C27: the timestamp field never decreases along the events of a stream,
\* an error event emitted after a failure included.
C27_TimestampNonDecreasing ==
    \A i, j \in 1..Len(out) : i < j => out[i].timestamp <= out[j].timestamp

\* A Gemini stream opened after the clock had moved, with an event stamped
\* at the start of the stream followed by the error event of a failure.
C27_Witness ==
    /\ adapter = "gemini" /\ failure
    /\ timestamp > 0
    /\ Len(out) >= 2
    /\ out[Len(out)].type = "error"
    /\ out[1].timestamp = timestamp

(***************************************************************************)
(* Properties of the tool-calling loop.                                    *)
(***************************************************************************)
\* C5: the adapter is never invoked more than maxIterations times, and when
\* the model requested tool calls on every turn the loop ends Complete after
\* exactly maxIterations adapter invocations and maxIterations tool rounds.
C5_ToolTurnsRunToTheBound ==
    /\ adapterCalls <= maxIterations
    /\ (pc \in {"Complete", "Failed"} /\ toolTurns = adapterCalls) =>
          /\ pc = "Complete"
          /\ adapterCalls = maxIterations
          /\ toolRounds = maxIterations

\* C6: once a turn whose done event has a finish reason other than
\* tool_calls is over, the loop is Complete, no tool was executed, and the
\* conversation ends with the one assistant message that holds the turn's
\* accumulated content.
C6_NonToolFinishAppendsAssistant ==
    (pc # "Streaming" /\ lastFinish \notin {"", "tool_calls"}) =>
        /\ pc = "Complete"
        /\ executed = <<>>
        /\ messages[Len(messages)] = Message("assistant", content, <<>>, NoId)
        /\ Cardinality({i \in 1..Len(messages) :
                           messages[i].role = "assistant" /\ messages[i].toolCalls = <<>>}) = 1

\* C7: when the loop has left the tool round of a turn that ended with
\* tool_calls (it is back at its head or has ended), the conversation ends
\* with one assistant message carrying the turn's tool calls followed by
\* exactly one tool message per call, with that call's id; and every tool
\* message is preceded by an assistant message whose toolCalls hold its id.
C7_ToolRoundMessages ==
    /\ (pc \in {"Start", "Complete", "Failed"} /\ lastFinish = "tool_calls"
           /\ Len(toolCalls) > 0) =>
          LET n == Len(toolCalls)
              m == Len(messages)
          IN /\ m >= n + 2
             /\ messages[m - n] = Message("assistant", content, toolCalls, NoId)
             /\ \A k \in 1..n :
                   /\ messages[m - n + k].role = "tool"
                   /\ messages[m - n + k].toolCallId = toolCalls[k].id
    /\ \A i \in 1..Len(messages) :
          messages[i].role = "tool" =>
             \E j \in 1..(i - 1) :
                /\ messages[j].role = "assistant"
                /\ \E k \in 1..Len(messages[j].toolCalls) :
                      messages[j].toolCalls[k].id = messages[i].toolCallId

\* C8: the tool calls of a turn are executed, and their result messages
\* appended, in ascending order of index.
C8_ExecutedInIndexOrder ==
    \A i, j \in 1..Len(executed) : i < j => executed[i].index < executed[j].index

\* The position of the last assistant message that carries tool calls, 0
\* when there is none.
LastToolTurn ==
    IF \E i \in 1..Len(messages) : messages[i].role = "assistant" /\ messages[i].toolCalls # <<>>
       THEN CHOOSE i \in 1..Len(messages) :
               /\ messages[i].role = "assistant" /\ messages[i].toolCalls # <<>>
               /\ \A j \in (i + 1)..Len(messages) :
                     ~(messages[j].role = "assistant" /\ messages[j].toolCalls # <<>>)
       ELSE 0

\* C21: no executor is run for a call whose function name is not a
\* registered tool.
C21_UnregisteredToolIsNotExecuted ==
    \A i \in 1..Len(executed) : executed[i].name \in DemoTools

\* C22: the loop never ends at a tool call whose accumulated arguments do
\* not parse: such a call is answered and the loop goes on.
C22_UnparseableArgumentsDoNotAbort ==
    ~(/\ pc = "Failed"
      /\ callPos \in 1..Len(toolCalls)
      /\ ~CanParse(toolCalls[callPos].arguments))

\* C23: once the loop has left a tool round in which an executor failed,
\* the round's assistant message is followed by as many tool messages as it
\* has tool calls, and the failure is the content of the failed call's own
\* message.
C23_ExecutorFailureIsPerTool ==
    (/\ pc # "ExecutingTools"
     /\ LastToolTurn > 0
     /\ \E k \in (LastToolTurn + 1)..Len(messages) : messages[k].content = <<"error">>)
    => /\ Len(messages) - LastToolTurn = Len(messages[LastToolTurn].toolCalls)
       /\ \A k \in (LastToolTurn + 1)..Len(messages) :
             /\ messages[k].role = "tool"
             /\ messages[k].toolCallId = messages[LastToolTurn].toolCalls[k - LastToolTurn].id

\* C24: once a turn's stream has delivered an error event and the loop has
\* left the stream, the loop is Failed and no tool was executed for the turn.
C24_ErrorEventFailsTheLoop ==
    (sst = "errored" /\ pc # "Streaming") => (pc = "Failed" /\ executed = <<>>)

\* C28: every step of the loop leaves the messages appended so far, and
\* their order, unchanged.
C28_MessagesAppendOnly ==
    [][ /\ Len(messages') >= Len(messages)
        /\ SubSeq(messages', 1, Len(messages)) = messages ]_vars

\* A tool round was appended to the conversation: the user message, the
\* assistant message with two tool calls and their two tool messages.
C28_Witness ==
    /\ pc = "Start" /\ toolRounds = 1
    /\ Len(messages) = 4
    /\ messages[3].role = "tool" /\ messages[4].role = "tool"

(***************************************************************************)
(* Properties of the orchestrator's cancellation.                          *)
(***************************************************************************)
\* C9: once cancellation is signalled, no tool executor is started and the
\* adapter is not invoked again; the tool messages appended for the turn
\* never exceed the k calls taken up before the signal; and the loop ends in
\* no state other than Cancelled.
C9_CancelStopsToolsAndAdapter ==
    /\ roundMsgs <= dispatched
    /\ cancelled =>
          /\ adapterCalls = cancelMark[1]
          /\ started = cancelMark[2]
          /\ dispatched = cancelMark[3]
          /\ roundMsgs <= cancelMark[3]
          /\ pc \in {"Start", "Streaming", "ExecutingTools", "Cancelled"}

\* Cancelled after two of a turn's three tool calls were taken up, with at
\* most two tool messages appended.
C9_Witness ==
    /\ pc = "Cancelled"
    /\ Len(toolCalls) = 3
    /\ dispatched = 2
    /\ roundMsgs <= 2
    /\ started >= 1

\* C25: the cancel signal leaves an executor in flight running, and from the
\* moment the invocation is cancelled no step appends a message: the
\* executor's return included.
C25_InFlightResultDroppedAfterCancel ==
    [][ /\ (inflight /\ ~cancelled /\ cancelled') => inflight'
        /\ cancelled => messages' = messages ]_vars

\* Cancelled while an executor was in flight: the executor returned, its
\* call counts as dispatched, and no tool message was appended for it.
C25_Witness ==
    /\ pc = "Cancelled"
    /\ ~inflight
    /\ started = cancelMark[2]
    /\ started >= 1
    /\ roundMsgs < dispatched

(***************************************************************************)
(* Properties of the response bridge.                                      *)
(***************************************************************************)
\* C10: once the consumer has gone away while the bridge is running (the
\* request signal aborted or the response stream was cancelled), no further
\* event is taken from the source and no further record is enqueued.
C10_CancelStopsTheSource ==
    atGone # <<>> => (Len(pulled) = atGone[1] /\ Len(records) = atGone[2])

\* The data records of a sequence of events, in order.
DataRecords(evs) == [i \in 1..Len(evs) |-> DataRecord(evs[i])]

\* C11: when the source ends with an abort raised inside it, no record of
\* type error is on the response stream.
C11_AbortIsNotAnErrorRecord ==
    srcState = "aborted" => \A i \in 1..Len(records) : records[i].kind # "error"

\* C12: while the receiver is attached the records are the data records of
\* the events pulled so far, in source order; once the source is exhausted
\* they are followed by exactly one sentinel, the stream is closed, and the
\* sentinel is never followed by anything.
C12_RecordsThenSentinel ==
    /\ (stream # "cancelled" /\ srcState = "open") => records = DataRecords(pulled)
    /\ (stream # "cancelled" /\ srcState = "ended") =>
          /\ records = DataRecords(pulled) \o <<DoneRecord>>
          /\ stream = "closed"
          /\ bpc = "closed"
    /\ \A i \in 1..Len(records) : records[i].kind = "sentinel" => i = Len(records)

\* A source of three events, not all alike, was written out and closed.
C12_Witness ==
    /\ srcState = "ended" /\ bpc = "closed"
    /\ Len(pulled) = 3 /\ pulled[1] # pulled[2]
    /\ Len(records) = 4

\* C13: the sentinel is on the stream only if the source was exhausted
\* without throwing, and is there whenever it was (receiver attached); a
\* source that throws after k events leaves the k data records followed by
\* exactly one error record on a closed stream, without sentinel.
C13_SentinelIffExhausted ==
    /\ (\E i \in 1..Len(records) : records[i].kind = "sentinel") => srcState = "ended"
    /\ (stream # "cancelled" /\ srcState = "ended") =>
          (Len(records) > 0 /\ records[Len(records)] = DoneRecord)
    /\ (stream # "cancelled" /\ srcState \in {"thrown", "aborted"}) =>
          /\ records = DataRecords(pulled) \o <<ErrorRecord>>
          /\ stream = "closed"
          /\ bpc = "closed"

\* The source threw after two events and the stream was closed.
C13_Witness ==
    /\ srcState = "thrown" /\ bpc = "closed"
    /\ Len(pulled) = 2
    /\ Len(records) = 3

(***************************************************************************)
(* Properties of the tool-call accumulation.                               *)
(***************************************************************************)
RECURSIVE FirstName(_)
\* The name of the first fragment that carries a non-empty one.
FirstName(fcs) ==
    IF fcs = <<>> THEN ""
    ELSE IF Head(fcs).name # "" THEN Head(fcs).name
    ELSE FirstName(Tail(fcs))

\* The member of an object with the given key, "" when it has none.
ValueOf(obj, key) ==
    IF \E i \in 1..Len(obj) : KeyOf(obj[i]) = key
       THEN obj[CHOOSE i \in 1..Len(obj) : KeyOf(obj[i]) = key]
       ELSE ""

RECURSIVE LastValue(_, _)
\* The member with the given key of the last fragment that has one.
LastValue(fcs, key) ==
    IF fcs = <<>> THEN ""
    ELSE LET last == fcs[Len(fcs)].args
             v == IF last.kind = "object" THEN ValueOf(last.val, key) ELSE ""
         IN IF v # "" THEN v ELSE LastValue(SubSeq(fcs, 1, Len(fcs) - 1), key)

RECURSIVE ConcatStrings(_)
\* f1 + ... + fn of string-shaped fragments.
ConcatStrings(fcs) ==
    IF fcs = <<>> THEN <<>> ELSE Head(fcs).args.val \o ConcatStrings(Tail(fcs))

\* C16: the name of the record, and of every tool_call event emitted for
\* it, is the name of the first fragment so far that carries a non-empty
\* name.
C16_NameSetByFirstNamedFragment ==
    /\ \A i \in 1..Len(accum.map) : accum.map[i].name = FirstName(fragments)
    /\ \A k \in 1..Len(accum.evs) :
          accum.evs[k].toolCall.name = FirstName(SubSeq(fragments, 1, k))

C18_StringFragmentsConcatenate ==
    (Len(fragments) > 0 /\ \A k \in 1..Len(fragments) : fragments[k].args.kind = "string") =>
        /\ Len(accum.map) = 1
        /\ accum.map[1].args = ConcatStrings(fragments)

(***************************************************************************)
(* Properties of the request conversion.                                   *)
(***************************************************************************)
SupportedPartTypes == {"text", "image", "audio", "video", "document"}

\* The places <<m, k>> of the request's content parts of unsupported type.
UnsupportedPlaces ==
    { <<m, k>> \in (1..Len(request)) \X (1..MaxParts) :
         /\ k <= Len(request[m].parts)
         /\ request[m].parts[k].type \notin SupportedPartTypes }

\* C26: a request with a content part of unsupported type never gets past
\* the conversion: the vendor is not called and no event is emitted, and the
\* error thrown names the type of the first such part; a request that is
\* converted has, for every message, one vendor part per content part, in
\* order and with the part's value.
C26_UnsupportedPartFailsFast ==
    /\ UnsupportedPlaces # {} => rpc \in {"start", "thrown"}
    /\ rpc = "thrown" =>
          \E p \in UnsupportedPlaces :
              /\ \A q \in UnsupportedPlaces : p[1] < q[1] \/ (p[1] = q[1] /\ p[2] <= q[2])
              /\ thrown = request[p[1]].parts[p[2]].type
    /\ rpc \in {"mapped", "called", "streaming", "errored"} =>
          /\ Len(contents) = Len(request)
          /\ \A m \in 1..Len(request) :
                /\ Len(contents[m].parts) >= Len(request[m].parts)
                /\ \A k \in 1..Len(request[m].parts) :
                      contents[m].parts[k].value = request[m].parts[k].value

\* A two-message request whose second message has a supported part followed
\* by an unsupported one: chatStream threw naming the type.
C26_Witness ==
    /\ rpc = "thrown" /\ thrown = "sticker"
    /\ Len(request) = 2
    /\ request[1].role = "tool"
    /\ Len(request[2].parts) = 2
    /\ request[2].parts[1].type = "image"
    /\ request[2].parts[2].type = "sticker"

(***************************************************************************)
(* Properties of the group chat server.                                    *)
(***************************************************************************)
\* The invocations of processClaudeQueue between their startProcessing and
\* their finishProcessing.
InProcessing == { i \in DOMAIN invs : invs[i].pc \in Processing }

\* C29: Claude requests are processed one at a time.  In every interleaving of
\* sendMessage calls from the ChatServer instances at most one invocation of
\* processClaudeQueue is between its startProcessing and its finishProcessing,
\* so no other invocation starts or streams in between; and the service is
\* processing exactly while there is one.
C29_OneRequestInProcessing ==
    /\ Cardinality(InProcessing) <= 1
    /\ claude.isProcessing <=> InProcessing # {}

\* A response is streaming while another request waits in the queue and another
\* invocation is about to look at the queue.
C29_Witness ==
    \E i, j \in DOMAIN invs :
        /\ invs[i].pc = "streaming"
        /\ invs[j].pc = "entered"
        /\ claude.queue # <<>>

\* The entry is the notification, with its id when it has one.
IsEntryOf(e, n) ==
    /\ e.type = n.type
    /\ e.username = n.username
    /\ n.id # NoChatId => e.id = n.id

\* q2 is q with one entry for n appended, the oldest entries dropped beyond
\* the cap.
AppendedOnce(q, q2, n) ==
    /\ q2 # <<>>
    /\ IsEntryOf(q2[Len(q2)], n)
    /\ Len(q2) = (IF Len(q) + 1 > QueueCap THEN QueueCap ELSE Len(q) + 1)
    /\ SubSeq(q2, 1, Len(q2) - 1) = SubSeq(q, Len(q) - Len(q2) + 2, Len(q))

\* C30: a call of broadcastToAll(notification, excludeUser) appends the
\* notification exactly once to the queue of every username in clients other
\* than excludeUser, and leaves the queue of the excluded user and of every
\* username not in clients as it was (none is created for them either).
C30_BroadcastReachesExactlyTheOthers ==
    [][bcast' # bcast =>
        \A u \in Users :
            IF u \in clients /\ u # bcast'.exclude
            THEN /\ AppendedOnce(queues[u], queues'[u], bcast'.notification)
                 /\ u \in queueKeys'
            ELSE /\ queues'[u] = queues[u]
                 /\ u \in queueKeys' <=> u \in queueKeys]_vars

\* A broadcast has excluded one client and reached another, whose queue was
\* full, while a third user with a queue is no client.
C30_Witness ==
    /\ bcast.count = 1
    /\ bcast.exclude = "alice"
    /\ clients = {"alice", "bob"}
    /\ queues["alice"] = EarlierQueue(1)
    /\ Len(queues["bob"]) = QueueCap
    /\ IsEntryOf(queues["bob"][QueueCap], bcast.notification)
    /\ queues["bob"][1] # EarlierQueue(1)[1]
    /\ queues["carol"] = EarlierQueue(2)

\* C33: every Claude request enqueued by sendMessage is eventually taken into
\* processing, given that every streamResponse call terminates.  Requests
\* leave the queue only by startProcessing, which takes the head, so a queue
\* that holds requests is eventually a queue that holds none.
C33_QueuedRequestIsProcessed == (claude.queue # <<>>) ~> (claude.queue = <<>>)

\* Two requests were enqueued, the response to the first one failed, and the
\* second one is now the one in processing.
C33_Witness ==
    /\ claude.isProcessing
    /\ claude.current.username = "bob"
    /\ Len(chatMessages) = 2
    /\ \A k \in DOMAIN chatMessages : chatMessages[k].username # "Claude"
    /\ \E u \in Users : \E k \in DOMAIN queues[u] : queues[u][k].type = "claude_error"

\* C37: the response to a queued request is generated from the conversation
\* history of that request: the history a processClaudeQueue invocation
\* passes to streamResponse is the one its request was enqueued with, without
\* the chat messages sent since.
C37_HistoryIsTheRequests ==
    \A i \in DOMAIN invs :
        invs[i].pc = "streaming" => invs[i].history = claude.current.history

\* C34: in every reachable state of the chat server every per-user message
\* queue holds at most the cap (50 in the code) entries.
C34_QueueWithinCap == \A u \in Users : Len(queues[u]) <= QueueCap

LeftBehind(s) == { u \in joinedAs[s] : \A t \in Servers \ {s} : u \notin joinedAs[t] }

\* C36: after the WebSocket of a connection has closed, its ChatServer is not
\* in activeServers and the username it joined with has no entry in clients
\* and no queue, whatever the order of joinChat, leaveChat and close was.
C36_ClosedConnectionLeavesNothing ==
    \A s \in Servers :
        (closed[s] /\ pending[s] = NoCall)
        => /\ s \notin activeServers
           /\ \A u \in LeftBehind(s) : u \notin clients /\ u \notin queueKeys
====
